---- MODULE Spec2Model ----
(***************************************************************************)
(* Reservation lifecycle and booking gate of the restaurant reservation    *)
(* system: the Flask handlers of app.py and the dashboard handlers of      *)
(* discord_bot.py, acting on one shared SQLite database.                   *)
(*                                                                         *)
(* Every handler is split at the points where another request can run:     *)
(* each SELECT, each committed write, each log_action call (a transaction  *)
(* of its own on a connection of its own) and the SMS send.                *)
(*                                                                         *)
(* Dates 'YYYY-MM-DD' are day ordinals (ISO dates order like them); times  *)
(* 'HH:MM' and phone numbers are sequences of one-character strings, and   *)
(* are parsed and cleaned as the code does.  The clock stands for both     *)
(* now() and SQLite's 'now','localtime' (server zone = Europe/Madrid), at  *)
(* whole minutes.                                                          *)
(***************************************************************************)
EXTENDS Integers, Sequences, FiniteSets, Bags, TLC

VARIABLES
    reservations,       \* table reservations: a set of rows
    last_id,            \* AUTOINCREMENT counter of table reservations
    action_log,         \* table action_log: rows in id order
    sms_outbox,         \* bag of the SMS send attempts made
    blocked_hours,      \* table blocked_hours: set of <<fecha, hora>>
    DEFAULT_HOURS,      \* the slot template (a global list of app.py)
    clock,              \* current local time [day, hour, minute]
    schema_has_status,  \* whether the deployed reservations table has a column status
    channels,           \* per dashboard channel: its messages, oldest first
    req,                \* per worker: the request being served
    response,           \* the answer of the request that returned last
    last_checked_action_id,  \* the bot's global: id of the last audit row it has seen
    unlogged,           \* history: the handlers whose UPDATE or INSERT is committed and
                        \* whose audit row is not written yet, in commit order
    asked_at            \* history: the clock at the last availability query

vars == <<reservations, last_id, action_log, sms_outbox, blocked_hours,
          DEFAULT_HOURS, clock, schema_has_status, channels, req, response,
          last_checked_action_id, unlogged, asked_at>>

----------------------------------------------------------------------------
(* Bounds *)

MaxRes == 2          \* reservations ever created while bookings are explored
MaxSeq == 1          \* reservations ever created, one request at a time
MaxRaced == 1        \* reservations ever created under concurrent requests
MaxGate == 1         \* reservations ever created while the gate is explored
MaxBulk == 2          \* messages a channel may hold beyond the scan limit when a run starts
MaxDay == 2          \* last day the clock reaches (it starts on day 1)

(* Program constants *)

LARGE_GROUP_THRESHOLD == 4
HISTORY_LIMIT == 200   \* channel.history(limit=200)
PURGE_LIMIT == 200     \* channel.purge(limit=200)
NULL == -1

\* days an audit row is kept by the daily cleanup
LOG_RETENTION_DAYS == 30           \* SQL NULL of an integer, boolean or timestamp column
NULL_TEXT == "NULL"  \* SQL NULL of a text column

----------------------------------------------------------------------------
(* Input alphabets *)

T2500 == <<"2", "5", ":", "0", "0">>
T0930 == <<"9", ":", "3", "0">>
T1300 == <<"1", "3", ":", "0", "0">>
T1330 == <<"1", "3", ":", "3", "0">>
T1400 == <<"1", "4", ":", "0", "0">>
T1430 == <<"1", "4", ":", "3", "0">>
T1900 == <<"1", "9", ":", "0", "0">>
T2030 == <<"2", "0", ":", "3", "0">>
T2100 == <<"2", "1", ":", "0", "0">>
T2130 == <<"2", "1", ":", "3", "0">>
T2200 == <<"2", "2", ":", "0", "0">>

\* +34 6 written three ways; the first two clean to the same number
PhoneSpaced == <<"+", "3", "4", " ", "6">>
PhoneBare   == <<"3", "4", "-", "6">>
PhoneOther  == <<"(", "3", "4", ")", "7">>

\* customer names; "*" stands for the character U+1F31F that marks the today header
NameAna  == <<"A", "n", "a">>
NameStar == <<"*", "A">>

Workers == {"w1", "w2"}
Tokens  == {"tokA", "tokB"}
Staff   == {"maria#1"}
ChannelTypes == {"today", "confirmed", "pending"}

----------------------------------------------------------------------------
(* Pure helpers *)

DigitVal(c) ==
    CASE c = "0" -> 0 [] c = "1" -> 1 [] c = "2" -> 2 [] c = "3" -> 3
      [] c = "4" -> 4 [] c = "5" -> 5 [] c = "6" -> 6 [] c = "7" -> 7
      [] c = "8" -> 8 [] c = "9" -> 9 [] OTHER -> -1

RECURSIVE DigitsValue(_)
DigitsValue(d) ==
    IF d = <<>> THEN 0
    ELSE 10 * DigitsValue(SubSeq(d, 1, Len(d) - 1)) + DigitVal(d[Len(d)])

ColonPos(s) ==
    IF \E i \in 1..Len(s) : s[i] = ":"
    THEN CHOOSE i \in 1..Len(s) : s[i] = ":" /\ \A j \in 1..(i - 1) : s[j] # ":"
    ELSE 0

\* datetime.strptime(s, '%H:%M'): ok = FALSE stands for the ValueError
strptime_HM(s) ==
    LET i  == ColonPos(s)
        hh == IF i > 0 THEN SubSeq(s, 1, i - 1) ELSE <<>>
        mm == IF i > 0 THEN SubSeq(s, i + 1, Len(s)) ELSE <<>>
        ok == /\ i > 0
              /\ Len(hh) \in 1..2 /\ Len(mm) \in 1..2
              /\ \A k \in 1..Len(hh) : DigitVal(hh[k]) >= 0
              /\ \A k \in 1..Len(mm) : DigitVal(mm[k]) >= 0
              /\ DigitsValue(hh) <= 23 /\ DigitsValue(mm) <= 59
    IN  IF ok THEN [ok |-> TRUE, hour |-> DigitsValue(hh), minute |-> DigitsValue(mm)]
        ELSE [ok |-> FALSE, hour |-> 0, minute |-> 0]

IsLargeGroupGE(personas) == personas >= LARGE_GROUP_THRESHOLD

is_large_group(personas) == personas > LARGE_GROUP_THRESHOLD

StripPhone(phone) == SelectSeq(phone, LAMBDA c : c \notin {" ", "-", "(", ")"})

clean_phone_number(phone) ==
    LET clean == StripPhone(phone)
    IN  IF clean # <<>> /\ clean[1] = "+" THEN clean ELSE <<"+">> \o clean

TimeslotLate(hour) ==
    IF hour < 13 THEN "before_morning"
    ELSE IF 13 <= hour /\ hour < 19 THEN "morning"
    ELSE "evening"

get_current_timeslot(hour) ==
    IF hour < 12 THEN "before_morning"
    ELSE IF 12 <= hour /\ hour < 19 THEN "morning"
    ELSE "evening"

get_blocked_hours_for_date(fecha) == {b[2] : b \in {x \in blocked_hours : x[1] = fecha}}

is_hour_available(fecha, hora) == hora \notin get_blocked_hours_for_date(fecha)

\* the template less the blocked hours and less the hours already booked on the date
GetAvailableHoursUnbooked(fecha) ==
    ({DEFAULT_HOURS[i] : i \in 1..Len(DEFAULT_HOURS)} \ get_blocked_hours_for_date(fecha))
        \ {r.hora : r \in {x \in reservations : x.fecha = fecha}}

\* set(DEFAULT_HOURS) - set(blocked); the sorted list is built where it is needed
get_available_hours_for_date(fecha) ==
    {DEFAULT_HOURS[i] : i \in 1..Len(DEFAULT_HOURS)} \ get_blocked_hours_for_date(fecha)

\* (allowed, reason) of is_booking_allowed at the current clock
is_booking_allowed(fecha, hora) ==
    LET t == strptime_HM(hora)
        booking_timeslot == IF t.hour < 19 THEN "morning" ELSE "evening"
        current_time == get_current_timeslot(clock.hour)
    IN  IF ~t.ok THEN <<FALSE, "error_validar">>
        ELSE IF ~is_hour_available(fecha, hora) THEN <<FALSE, "hora_no_disponible">>
        ELSE IF fecha < clock.day THEN <<FALSE, "fecha_pasada">>
        ELSE IF fecha = clock.day
             THEN IF current_time = "before_morning" THEN <<TRUE, "">>
                  ELSE IF current_time = "morning"
                       THEN IF booking_timeslot = "morning"
                            THEN <<FALSE, "sirviendo_almuerzo">>
                            ELSE <<TRUE, "">>
                       ELSE <<FALSE, "sirviendo_cena">>
        ELSE <<TRUE, "">>

ApiAvailableHoursAfter19(fecha) ==
    LET available == get_available_hours_for_date(fecha)
    IN  IF fecha = clock.day
        THEN IF clock.hour < 19
             THEN {h \in available : strptime_HM(h).hour > 19}
             ELSE {}
        ELSE IF fecha < clock.day THEN {}
        ELSE available

\* the hours offered without the same-day rules
ApiAvailableHoursUnpruned(fecha) ==
    IF fecha < clock.day THEN {} ELSE get_available_hours_for_date(fecha)

\* GET /api/available-hours: the hours offered for a date, as a set
api_available_hours(fecha) ==
    LET available == get_available_hours_for_date(fecha)
    IN  IF fecha = clock.day
        THEN IF clock.hour < 19
             THEN {h \in available : strptime_HM(h).hour >= 19}
             ELSE {}
        ELSE IF fecha < clock.day THEN {}
        ELSE available

\* CURRENT_TIMESTAMP, in minutes
Stamp == clock.day * 1440 + clock.hour * 60 + clock.minute

\* datetime(fecha || ' ' || hora) >= datetime('now', 'localtime')
SqlDatetimeNotPast(fecha, hora) ==
    LET t == strptime_HM(hora)
    IN  fecha * 1440 + t.hour * 60 + t.minute >= Stamp

\* date(fecha || ' ' || hora) >= datetime('now', 'localtime'): a text comparison of
\* 'YYYY-MM-DD' with 'YYYY-MM-DD HH:MM:SS', where today's date is a proper prefix
\* of the right side and so compares smaller
SqlDateVsDatetimeNotPast(fecha, hora) == fecha > clock.day

\* date(fecha) >= date('now', 'localtime')
SqlDateNotPast(fecha) == fecha >= clock.day

----------------------------------------------------------------------------
(* Storage helpers *)

RowOf(rid) == CHOOSE r \in reservations : r.id = rid

Exists(rid) == \E r \in reservations : r.id = rid

\* UPDATE reservations SET ... WHERE id = rid (no row: nothing changes)
UpdateWhereId(rid, set) ==
    {IF r.id = rid
     THEN [c \in DOMAIN r |-> IF c \in DOMAIN set THEN set[c] ELSE r[c]]
     ELSE r : r \in reservations}

ColumnDefaultNull == NULL

\* DEFAULT 0 of the columns user_confirmed, restaurant_confirmed, cancelled
ColumnDefault == 0

\* conn.commit() of the handler's UPDATE or INSERT
Committed(p) == unlogged' = Append(unlogged, p)

\* the handler is past its log_action call
Logged(p) == unlogged' = SelectSeq(unlogged, LAMBDA q : q # p)

\* a row of action_log; its id is its place in the table, timestamp DEFAULT CURRENT_TIMESTAMP
LogRow(rid, action_type, performed_by) ==
    [reservation_id |-> rid, action_type |-> action_type, performed_by |-> performed_by,
     timestamp |-> Stamp]

\* the INSERT of log_action
log_action(rid, action_type, performed_by) ==
    action_log' = Append(action_log, LogRow(rid, action_type, performed_by))

SmsRow(rid, kind, to) == [rid |-> rid, kind |-> kind, to |-> to]

\* one send_sms attempt, whatever it returns
send_sms(rid, kind, to) == SetToBag({SmsRow(rid, kind, to)})

----------------------------------------------------------------------------
(* Requests *)

NoData == [nombre |-> <<>>, telefono |-> <<>>, personas |-> 0, fecha |-> 0, hora |-> <<>>]

Idle == [op |-> "none", pc |-> "idle", rid |-> 0, ch |-> "", actor |-> "", data |-> NoData]

\* an answer: sms_sent is what send_sms returned to the handler, when it was called
Resp(op, status, message) ==
    [op |-> op, status |-> status, message |-> message, id |-> 0, sms_sent |-> FALSE]

Done(op, message, rid, sms_sent) ==
    [op |-> op, status |-> "ok", message |-> message, id |-> rid, sms_sent |-> sms_sent]

\* the handler returns
Return(p, answer) ==
    /\ req' = [req EXCEPT ![p] = Idle]
    /\ response' = answer

Begin(p, r) ==
    /\ req' = [req EXCEPT ![p] = r]
    /\ UNCHANGED response

Goto(p, pc) == Begin(p, [req[p] EXCEPT !.pc = pc])

IsFree(p) == req[p].pc = "idle"

At(p, op, pc) == req[p].op = op /\ req[p].pc = pc

\* no availability query has been answered yet
NotAsked == [day |-> 0, hour |-> 0, minute |-> 0]

Init ==
    /\ reservations = {}
    /\ last_id = 0
    /\ action_log = <<>>
    /\ sms_outbox = EmptyBag
    /\ blocked_hours = {}
    /\ DEFAULT_HOURS = <<T1300, T1330, T1400, T1430, T2030, T2100, T2130, T2200>>
    /\ clock = [day |-> 1, hour |-> 11, minute |-> 59]
    /\ schema_has_status \in BOOLEAN
    /\ channels = [ch \in ChannelTypes |-> <<>>]
    /\ req = [p \in Workers |-> Idle]
    /\ response = Resp("none", "none", "")
    /\ last_checked_action_id = 0
    /\ unlogged = <<>>
    /\ asked_at = NotAsked


----------------------------------------------------------------------------
(* POST /reservar: create_reservation *)

ActiveBookingIgnoringCancel(telefono) ==
    \E r \in reservations :
        /\ r.telefono = telefono
        /\ r.user_confirmed = 1
        /\ SqlDateNotPast(r.fecha)

\* the duplicate SELECT: an active, user-confirmed reservation of this phone, today or later
ActiveBooking(telefono) ==
    \E r \in reservations :
        /\ r.telefono = telefono
        /\ r.user_confirmed = 1
        /\ r.cancelled = 0
        /\ SqlDateNotPast(r.fecha)

\* `not data[field]` of the required fields
MissingField(data) ==
    data.nombre = <<>> \/ data.telefono = <<>> \/ data.personas = 0 \/ data.hora = <<>>

\* required fields, clean_phone_number and the duplicate check
create_reservation_check(p, data) ==
    /\ IsFree(p)
    /\ LET clean_phone == clean_phone_number(data.telefono)
       IN  IF MissingField(data)
           THEN Return(p, Resp("create", "rejected", "campo_requerido"))
           ELSE IF ActiveBooking(clean_phone)
           THEN Return(p, Resp("create", "rejected", "ya_tienes_reserva"))
           ELSE Begin(p,
                    [Idle EXCEPT !.op = "create", !.pc = "allowed",
                                 !.data = [data EXCEPT !.telefono = clean_phone]])
    /\ UNCHANGED <<asked_at, last_checked_action_id, unlogged,
                   reservations, last_id, action_log, sms_outbox, blocked_hours,
                   DEFAULT_HOURS, clock, schema_has_status, channels>>

\* is_booking_allowed(data['fecha'], data['hora'])
create_reservation_allowed(p) ==
    /\ At(p, "create", "allowed")
    /\ LET a == is_booking_allowed(req[p].data.fecha, req[p].data.hora)
       IN  IF a[1] THEN Goto(p, "insert") ELSE Return(p, Resp("create", "rejected", a[2]))
    /\ UNCHANGED <<asked_at, last_checked_action_id, unlogged,
                   reservations, last_id, action_log, sms_outbox, blocked_hours,
                   DEFAULT_HOURS, clock, schema_has_status, channels>>

\* the row stored approved whatever the party size
NewRowPreApproved(id, data, token) ==
    [id |-> id,
     nombre |-> data.nombre,
     telefono |-> data.telefono,
     personas |-> data.personas,
     fecha |-> data.fecha,
     hora |-> data.hora,
     user_confirmed |-> 0,
     restaurant_confirmed |-> 1,
     cancelled |-> ColumnDefault,
     cancelled_at |-> NULL,
     cancelled_by |-> NULL_TEXT,
     confirmation_token |-> token]

NewRow(id, data, token) ==
    [id |-> id,
     nombre |-> data.nombre,
     telefono |-> data.telefono,
     personas |-> data.personas,
     fecha |-> data.fecha,
     hora |-> data.hora,
     user_confirmed |-> 0,
     restaurant_confirmed |-> IF is_large_group(data.personas) THEN 0 ELSE 1,
     cancelled |-> ColumnDefault,
     cancelled_at |-> NULL,
     cancelled_by |-> NULL_TEXT,
     confirmation_token |-> token]

\* secrets.token_urlsafe(16) and the INSERT; a token already stored breaks the
\* UNIQUE constraint, and the IntegrityError ends the request in the except branch
create_reservation_insert(p, token) ==
    /\ At(p, "create", "insert")
    /\ IF \E r \in reservations : r.confirmation_token = token
       THEN /\ Return(p, Resp("create", "error", "error_procesando"))
            /\ UNCHANGED <<reservations, last_id, unlogged>>
       ELSE /\ reservations' = reservations \cup {NewRow(last_id + 1, req[p].data, token)}
            /\ Committed(p)
            /\ last_id' = last_id + 1
            /\ Begin(p, [req[p] EXCEPT !.pc = "log", !.rid = last_id + 1])
    /\ UNCHANGED <<asked_at, last_checked_action_id,
                   action_log, sms_outbox, blocked_hours, DEFAULT_HOURS, clock,
                   schema_has_status, channels>>

create_reservation_log(p) ==
    /\ At(p, "create", "log")
    /\ log_action(req[p].rid, "created", "web_form")
    /\ Goto(p, "sms")
    /\ Logged(p)
    /\ UNCHANGED <<asked_at, last_checked_action_id,
                   reservations, last_id, sms_outbox, blocked_hours, DEFAULT_HOURS,
                   clock, schema_has_status, channels>>

CreateResponseFailing(rid, sms_sent) ==
    [op |-> "create", status |-> IF sms_sent THEN "ok" ELSE "error",
     message |-> "reserva_registrada", id |-> rid, sms_sent |-> sms_sent]

\* the JSON answer of a stored reservation: success, reservation_id, sms_sent
CreateResponse(rid, sms_sent) == Done("create", "reserva_registrada", rid, sms_sent)

create_reservation_sms(p, sms_sent) ==
    /\ At(p, "create", "sms")
    /\ sms_outbox' = sms_outbox (+) send_sms(req[p].rid, "confirm_link", "customer")
    /\ Return(p, CreateResponse(req[p].rid, sms_sent))
    /\ UNCHANGED <<asked_at, last_checked_action_id, unlogged,
                   reservations, last_id, action_log, blocked_hours, DEFAULT_HOURS,
                   clock, schema_has_status, channels>>

----------------------------------------------------------------------------
(* POST /confirm/<token>: confirm_reservation *)

ConfirmableIgnoringFlag(token) ==
    {r \in reservations :
        /\ r.confirmation_token = token
        /\ r.cancelled = 0
        /\ SqlDatetimeNotPast(r.fecha, r.hora)}

\* the SELECT of the POST branch
Confirmable(token) ==
    {r \in reservations :
        /\ r.confirmation_token = token
        /\ r.user_confirmed = 0
        /\ r.cancelled = 0
        /\ SqlDatetimeNotPast(r.fecha, r.hora)}

\* a GET that confirms the reservation it shows
ConfirmGetConfirms(token) ==
    /\ reservations' = {IF r \in ConfirmableIgnoringFlag(token)
                        THEN [r EXCEPT !.user_confirmed = 1] ELSE r : r \in reservations}
    /\ response' = Resp("confirm_get", "summary", "")
    /\ UNCHANGED <<asked_at, last_checked_action_id, unlogged,
                   last_id, action_log, sms_outbox, blocked_hours,
                   DEFAULT_HOURS, clock, schema_has_status, channels, req>>

\* GET /confirm/<token>: one SELECT, then the invalid page, the page with the
\* confirmation button, or the page of the confirmed reservation
confirm_reservation_get(token) ==
    /\ response' =
           IF ConfirmableIgnoringFlag(token) = {}
           THEN Resp("confirm_get", "invalid", "enlace_invalido")
           ELSE LET reservation == CHOOSE r \in ConfirmableIgnoringFlag(token) : TRUE
                IN  IF reservation.user_confirmed = 0
                    THEN Resp("confirm_get", "prompt", "confirmar")
                    ELSE Resp("confirm_get", "summary",
                              IF ~is_large_group(reservation.personas)
                                    \/ reservation.restaurant_confirmed = 1
                              THEN "confirmada" ELSE "pendiente_aprobacion")
    /\ UNCHANGED <<asked_at, last_checked_action_id, unlogged,
                   reservations, last_id, action_log, sms_outbox, blocked_hours,
                   DEFAULT_HOURS, clock, schema_has_status, channels, req>>

confirm_reservation_select(p, token) ==
    /\ IsFree(p)
    /\ IF Confirmable(token) = {}
       THEN Return(p, Resp("confirm", "invalid", "enlace_invalido"))
       ELSE Begin(p,
                [Idle EXCEPT !.op = "confirm", !.pc = "update",
                             !.rid = (CHOOSE r \in Confirmable(token) : TRUE).id])
    /\ UNCHANGED <<asked_at, last_checked_action_id, unlogged,
                   reservations, last_id, action_log, sms_outbox, blocked_hours,
                   DEFAULT_HOURS, clock, schema_has_status, channels>>

\* an UPDATE that also approves for the restaurant
SetUserAndRestaurantConfirmed == [user_confirmed |-> 1, restaurant_confirmed |-> 1]

SetUserConfirmed == [user_confirmed |-> 1]

confirm_reservation_update(p) ==
    /\ At(p, "confirm", "update")
    /\ reservations' = UpdateWhereId(req[p].rid, SetUserConfirmed)
    /\ Goto(p, "log")
    /\ Committed(p)
    /\ UNCHANGED <<asked_at, last_checked_action_id,
                   last_id, action_log, sms_outbox, blocked_hours, DEFAULT_HOURS,
                   clock, schema_has_status, channels>>

confirm_reservation_log(p) ==
    /\ At(p, "confirm", "log")
    /\ log_action(req[p].rid, "user_confirmed", "customer")
    /\ Goto(p, "sms")
    /\ Logged(p)
    /\ UNCHANGED <<asked_at, last_checked_action_id,
                   reservations, last_id, sms_outbox, blocked_hours, DEFAULT_HOURS,
                   clock, schema_has_status, channels>>

\* send_sms to the customer, then notify_managers
confirm_reservation_sms(p, delivered) ==
    /\ At(p, "confirm", "sms")
    /\ sms_outbox' = sms_outbox (+) send_sms(req[p].rid, "confirmed", "customer")
                                (+) send_sms(req[p].rid, "confirmed", "managers")
    /\ Return(p, Done("confirm", "reserva_confirmada", req[p].rid, delivered))
    /\ UNCHANGED <<asked_at, last_checked_action_id, unlogged,
                   reservations, last_id, action_log, blocked_hours, DEFAULT_HOURS,
                   clock, schema_has_status, channels>>

----------------------------------------------------------------------------
(* GET /cancel/<token>: cancel_reservation *)

Cancellable(token) ==
    {r \in reservations :
        /\ r.confirmation_token = token
        /\ r.cancelled = 0
        /\ SqlDateVsDatetimeNotPast(r.fecha, r.hora)}

cancel_reservation_select(p, token) ==
    /\ IsFree(p)
    /\ IF Cancellable(token) = {}
       THEN Return(p, Resp("cancel", "invalid", "enlace_invalido"))
       ELSE Begin(p,
                [Idle EXCEPT !.op = "cancel", !.pc = "update",
                             !.rid = (CHOOSE r \in Cancellable(token) : TRUE).id])
    /\ UNCHANGED <<asked_at, last_checked_action_id, unlogged,
                   reservations, last_id, action_log, sms_outbox, blocked_hours,
                   DEFAULT_HOURS, clock, schema_has_status, channels>>

\* SET cancelled = 1, cancelled_at = CURRENT_TIMESTAMP, cancelled_by = actor
SetCancelled(actor) ==
    [cancelled |-> 1, cancelled_at |-> Stamp, cancelled_by |-> actor]

SetCancelledByCustomer == SetCancelled("customer")

cancel_reservation_update(p) ==
    /\ At(p, "cancel", "update")
    /\ reservations' = UpdateWhereId(req[p].rid, SetCancelledByCustomer)
    /\ Goto(p, "log")
    /\ Committed(p)
    /\ UNCHANGED <<asked_at, last_checked_action_id,
                   last_id, action_log, sms_outbox, blocked_hours, DEFAULT_HOURS,
                   clock, schema_has_status, channels>>

cancel_reservation_log(p) ==
    /\ At(p, "cancel", "log")
    /\ log_action(req[p].rid, "cancelled", "customer")
    /\ Goto(p, "sms")
    /\ Logged(p)
    /\ UNCHANGED <<asked_at, last_checked_action_id,
                   reservations, last_id, sms_outbox, blocked_hours, DEFAULT_HOURS,
                   clock, schema_has_status, channels>>

cancel_reservation_sms(p, delivered) ==
    /\ At(p, "cancel", "sms")
    /\ sms_outbox' = sms_outbox (+) send_sms(req[p].rid, "cancelled", "customer")
                                (+) send_sms(req[p].rid, "cancelled", "managers")
    /\ Return(p, Done("cancel", "reserva_cancelada", req[p].rid, delivered))
    /\ UNCHANGED <<asked_at, last_checked_action_id, unlogged,
                   reservations, last_id, action_log, blocked_hours, DEFAULT_HOURS,
                   clock, schema_has_status, channels>>


----------------------------------------------------------------------------
(* POST /api/admin/cancel/<id>: admin_cancel_reservation *)

\* Python truth of a column value
Truthy(v) == v # 0 /\ v # NULL

admin_cancel_reservation_select(p, rid) ==
    /\ IsFree(p)
    /\ IF ~Exists(rid) THEN Return(p, Resp("admin_cancel", "not_found", "reserva_no_encontrada"))
       ELSE IF Truthy(RowOf(rid).cancelled)
       THEN Return(p, Resp("admin_cancel", "rejected", "reserva_ya_cancelada"))
       ELSE Begin(p,
                [Idle EXCEPT !.op = "admin_cancel", !.pc = "update", !.rid = rid])
    /\ UNCHANGED <<asked_at, last_checked_action_id, unlogged,
                   reservations, last_id, action_log, sms_outbox, blocked_hours,
                   DEFAULT_HOURS, clock, schema_has_status, channels>>

SetCancelledByAdmin == SetCancelled("admin")

admin_cancel_reservation_update(p) ==
    /\ At(p, "admin_cancel", "update")
    /\ reservations' = UpdateWhereId(req[p].rid, SetCancelledByAdmin)
    /\ Goto(p, "log")
    /\ Committed(p)
    /\ UNCHANGED <<asked_at, last_checked_action_id,
                   last_id, action_log, sms_outbox, blocked_hours, DEFAULT_HOURS,
                   clock, schema_has_status, channels>>

admin_cancel_reservation_log(p) ==
    /\ At(p, "admin_cancel", "log")
    /\ log_action(req[p].rid, "cancelled", "admin")
    /\ Goto(p, "sms")
    /\ Logged(p)
    /\ UNCHANGED <<asked_at, last_checked_action_id,
                   reservations, last_id, sms_outbox, blocked_hours, DEFAULT_HOURS,
                   clock, schema_has_status, channels>>

admin_cancel_reservation_sms(p, delivered) ==
    /\ At(p, "admin_cancel", "sms")
    /\ sms_outbox' = sms_outbox (+) send_sms(req[p].rid, "cancelled", "customer")
    /\ Return(p, Done("admin_cancel", "reserva_cancelada", req[p].rid, delivered))
    /\ UNCHANGED <<asked_at, last_checked_action_id, unlogged,
                   reservations, last_id, action_log, blocked_hours, DEFAULT_HOURS,
                   clock, schema_has_status, channels>>

----------------------------------------------------------------------------
(* POST /api/admin/approve/<id>: admin_approve_reservation *)

\* the approval without the test on restaurant_confirmed
AdminApproveSelectIgnoringFlag(p, rid) ==
    /\ IsFree(p)
    /\ IF ~Exists(rid) THEN Return(p, Resp("admin_approve", "not_found", "reserva_no_encontrada"))
       ELSE IF Truthy(RowOf(rid).cancelled)
       THEN Return(p, Resp("admin_approve", "rejected", "reserva_cancelada"))
       ELSE Begin(p,
                [Idle EXCEPT !.op = "admin_approve", !.pc = "update", !.rid = rid])
    /\ UNCHANGED <<asked_at, last_checked_action_id, unlogged,
                   reservations, last_id, action_log, sms_outbox, blocked_hours,
                   DEFAULT_HOURS, clock, schema_has_status, channels>>

admin_approve_reservation_select(p, rid) ==
    /\ IsFree(p)
    /\ IF ~Exists(rid) THEN Return(p, Resp("admin_approve", "not_found", "reserva_no_encontrada"))
       ELSE IF Truthy(RowOf(rid).cancelled)
       THEN Return(p, Resp("admin_approve", "rejected", "reserva_cancelada"))
       ELSE IF Truthy(RowOf(rid).restaurant_confirmed)
       THEN Return(p, Resp("admin_approve", "rejected", "reserva_ya_aprobada"))
       ELSE Begin(p,
                [Idle EXCEPT !.op = "admin_approve", !.pc = "update", !.rid = rid])
    /\ UNCHANGED <<asked_at, last_checked_action_id, unlogged,
                   reservations, last_id, action_log, sms_outbox, blocked_hours,
                   DEFAULT_HOURS, clock, schema_has_status, channels>>

SetRestaurantConfirmed == [restaurant_confirmed |-> 1]

admin_approve_reservation_update(p) ==
    /\ At(p, "admin_approve", "update")
    /\ reservations' = UpdateWhereId(req[p].rid, SetRestaurantConfirmed)
    /\ Goto(p, "log")
    /\ Committed(p)
    /\ UNCHANGED <<asked_at, last_checked_action_id,
                   last_id, action_log, sms_outbox, blocked_hours, DEFAULT_HOURS,
                   clock, schema_has_status, channels>>

admin_approve_reservation_log(p) ==
    /\ At(p, "admin_approve", "log")
    /\ log_action(req[p].rid, "restaurant_confirmed", "admin")
    /\ Goto(p, "sms")
    /\ Logged(p)
    /\ UNCHANGED <<asked_at, last_checked_action_id,
                   reservations, last_id, sms_outbox, blocked_hours, DEFAULT_HOURS,
                   clock, schema_has_status, channels>>

admin_approve_reservation_sms(p, delivered) ==
    /\ At(p, "admin_approve", "sms")
    /\ sms_outbox' = sms_outbox (+) send_sms(req[p].rid, "approved", "customer")
    /\ Return(p, Done("admin_approve", "reserva_aprobada", req[p].rid, delivered))
    /\ UNCHANGED <<asked_at, last_checked_action_id, unlogged,
                   reservations, last_id, action_log, blocked_hours, DEFAULT_HOURS,
                   clock, schema_has_status, channels>>

\* log_action raises (the database is locked by another writer): the handler's
\* except branch answers 500 after the state change was committed
log_action_raises(p) ==
    /\ req[p].pc = "log"
    /\ Return(p, Resp(req[p].op, "error", "exception"))
    /\ Logged(p)
    /\ UNCHANGED <<asked_at, last_checked_action_id,
                   reservations, last_id, action_log, sms_outbox, blocked_hours,
                   DEFAULT_HOURS, clock, schema_has_status, channels>>


----------------------------------------------------------------------------
(* Dashboard channels: get_channel_state, get_database_state, states_match,  *)
(* sync_channel_with_headers.  A date header's title is a function of the    *)
(* date it stands for, and is written as that date.                         *)

\* a title: the icon or marker that opens it and the reservation fields printed
\* in it; "===" stands for the three box-drawing characters of a date header
Title(icon, date, hora, nombre, personas) ==
    [icon |-> icon, date |-> date, hora |-> hora, nombre |-> nombre, personas |-> personas]

NoTitle == Title("", 0, <<>>, <<>>, 0)

Embed(title, footer) == [kind |-> "embed", title |-> title, footer |-> footer]

\* the header embed of a date (the today channel: of today)
HeaderTitle(status_type, key) ==
    Title(IF status_type = "today" THEN "*" ELSE "===", key, <<>>, <<>>, 0)

Header(status_type, key) == Embed(HeaderTitle(status_type, key), NULL)

\* create_reservation_embed: title "<icon> <hora> · <nombre> · <personas>p",
\* footer "... ID #<id>"
Card(status_type, r) ==
    Embed(Title(IF status_type = "confirmed" THEN "ok"
                ELSE IF status_type = "pending" THEN "wait" ELSE "cal",
                0, r.hora, r.nombre, r.personas),
          r.id)

\* channel.send("... No hay reservas en este momento"): no embed
TextMsg == [kind |-> "text", title |-> NoTitle, footer |-> NULL]

\* "===" in title
HasBars(title) ==
    title.icon = "===" \/ \E i \in 1..Len(title.nombre) : title.nombre[i] = "==="

\* the star character in title
HasStar(title) ==
    title.icon = "*" \/ \E i \in 1..Len(title.nombre) : title.nombre[i] = "*"

CharCode(c) == IF c = ":" THEN 58 ELSE 48 + DigitVal(c)

\* text comparison a < b, as SQLite compares the hora column
RECURSIVE TextLess(_, _)
TextLess(a, b) ==
    IF a = <<>> THEN b # <<>>
    ELSE IF b = <<>> THEN FALSE
    ELSE IF a[1] = b[1] THEN TextLess(Tail(a), Tail(b))
    ELSE CharCode(a[1]) < CharCode(b[1])

\* ORDER BY fecha, hora (rows alike in both come in id order)
RowBefore(a, b) ==
    \/ a.fecha < b.fecha
    \/ a.fecha = b.fecha /\ TextLess(a.hora, b.hora)
    \/ a.fecha = b.fecha /\ a.hora = b.hora /\ a.id < b.id

\* ORDER BY fecha, hora, id: the i-th row is the one that i - 1 rows precede
OrderBy(S) ==
    LET rank == [x \in S |-> Cardinality({y \in S : RowBefore(y, x)})]
    IN  [i \in 1..Cardinality(S) |-> CHOOSE x \in S : rank[x] = i - 1]

\* the queries with a pending list that does not ask for the customer's confirmation
SelectRowsPendingUnconfirmed(status_type) ==
    IF status_type = "confirmed"
    THEN {r \in reservations : r.user_confirmed = 1 /\ r.restaurant_confirmed = 1
                               /\ r.cancelled = 0 /\ r.fecha >= clock.day}
    ELSE IF status_type = "pending"
    THEN {r \in reservations : r.restaurant_confirmed = 0 /\ r.cancelled = 0}
    ELSE {r \in reservations : r.user_confirmed = 1 /\ r.restaurant_confirmed = 1
                               /\ r.cancelled = 0 /\ r.fecha = clock.day}

\* the queries without the test on cancelled
SelectRowsWithCancelled(status_type) ==
    IF status_type = "confirmed"
    THEN {r \in reservations : r.user_confirmed = 1 /\ r.restaurant_confirmed = 1
                               /\ r.fecha >= clock.day}
    ELSE IF status_type = "pending"
    THEN {r \in reservations : r.user_confirmed = 1 /\ r.restaurant_confirmed = 0}
    ELSE {r \in reservations : r.user_confirmed = 1 /\ r.restaurant_confirmed = 1
                               /\ r.fecha = clock.day}

\* the three queries of get_database_state and sync_channel_with_headers
SelectRows(status_type) ==
    IF status_type = "confirmed"
    THEN {r \in reservations : r.user_confirmed = 1 /\ r.restaurant_confirmed = 1
                               /\ r.cancelled = 0 /\ r.fecha >= clock.day}
    ELSE IF status_type = "pending"
    THEN {r \in reservations : r.user_confirmed = 1 /\ r.restaurant_confirmed = 0
                               /\ r.cancelled = 0}
    ELSE {r \in reservations : r.user_confirmed = 1 /\ r.restaurant_confirmed = 1
                               /\ r.cancelled = 0 /\ r.fecha = clock.day}

\* the header title a row is grouped under
HeaderKey(status_type, r) ==
    HeaderTitle(status_type, IF status_type = "today" THEN clock.day ELSE r.fecha)

\* dict header -> list of ids, as a function
get_database_state(status_type) ==
    LET rows == OrderBy(SelectRows(status_type))
        keys == {HeaderKey(status_type, rows[i]) : i \in 1..Len(rows)}
        ids  == [i \in 1..Len(rows) |-> rows[i].id]
    IN  [k \in keys |->
            SelectSeq(ids, LAMBDA id : HeaderKey(status_type, RowOf(id)) = k)]

\* the scan of the oldest HISTORY_LIMIT messages: a header opens (or reopens,
\* emptied) its list, a card with a footer joins the list of the header last
\* seen before it, a card before every header is skipped
get_channel_state(msgs) ==
    LET scanned == SubSeq(msgs, 1, IF Len(msgs) < HISTORY_LIMIT THEN Len(msgs) ELSE HISTORY_LIMIT)
        headers == {i \in 1..Len(scanned) :
                       scanned[i].kind = "embed"
                       /\ (HasBars(scanned[i].title) \/ HasStar(scanned[i].title))}
        LastOf(k) == CHOOSE h \in headers :
                         /\ scanned[h].title = k
                         /\ \A g \in headers : scanned[g].title = k => g <= h
        EndOf(h) == IF \E g \in headers : g > h
                    THEN (CHOOSE g \in headers : g > h /\ \A f \in headers : f > h => g <= f) - 1
                    ELSE Len(scanned)
        CardsAfter(h) == SelectSeq(SubSeq(scanned, h + 1, EndOf(h)),
                                   LAMBDA m : m.kind = "embed" /\ m.footer # NULL)
    IN  [k \in {scanned[h].title : h \in headers} |->
            [j \in 1..Len(CardsAfter(LastOf(k))) |-> CardsAfter(LastOf(k))[j].footer]]

Range(f) == {f[x] : x \in DOMAIN f}

states_match(channel_state, db_state) ==
    /\ DOMAIN channel_state = DOMAIN db_state
    /\ \A h \in DOMAIN db_state : Range(channel_state[h]) = Range(db_state[h])

\* the messages a rebuild posts
\* a row's card follows the cards before it and the headers sent so far; a
\* header is sent before the card of each row whose key differs from last_key
\* (first row) or from the key of the row before it
PostRows(status_type, rows, last_key) ==
    LET NewKey(i) == HeaderKey(status_type, rows[i])
                     # (IF i = 1 THEN last_key ELSE HeaderKey(status_type, rows[i - 1]))
        Offset(i) == i + Cardinality({j \in 1..i : NewKey(j)})
        RowAt(q)  == CHOOSE i \in 1..Len(rows) :
                         Offset(i) = q \/ (Offset(i) = q + 1 /\ NewKey(i))
    IN  [q \in 1..(IF rows = <<>> THEN 0 ELSE Offset(Len(rows))) |->
            IF Offset(RowAt(q)) = q
            THEN Card(status_type, rows[RowAt(q)])
            ELSE Embed(HeaderKey(status_type, rows[RowAt(q)]), NULL)]

Rebuild(status_type) ==
    LET rows == OrderBy(SelectRows(status_type))
    IN  IF rows = <<>> THEN <<TextMsg>> ELSE PostRows(status_type, rows, NoTitle)

\* channel.purge(limit): the newest messages go
Purge(msgs) ==
    IF Len(msgs) <= PURGE_LIMIT THEN <<>> ELSE SubSeq(msgs, 1, Len(msgs) - PURGE_LIMIT)

\* the channel's messages after sync_channel_with_headers
sync_channel_with_headers(msgs, status_type) ==
    IF states_match(get_channel_state(msgs), get_database_state(status_type))
    THEN msgs
    ELSE Purge(msgs) \o Rebuild(status_type)

sync_all_channels(chs) ==
    [ch \in ChannelTypes |-> sync_channel_with_headers(chs[ch], ch)]

\* A reconciliation run followed await by await: sync_all_channels takes the
\* channels in the order today, confirmed, pending; in each it observes, and if
\* the states differ it purges and then sends the messages one by one.  req[p].data
\* holds the messages the run has still to send.

\* the run of p leaves its channel: on to the next one, or the run ends
sync_all_channels_next(p) ==
    /\ req' = [req EXCEPT ![p] =
                  IF req[p].ch = "today"
                  THEN [req[p] EXCEPT !.pc = "observe", !.ch = "confirmed", !.data = NoData]
                  ELSE IF req[p].ch = "confirmed"
                  THEN [req[p] EXCEPT !.pc = "observe", !.ch = "pending", !.data = NoData]
                  ELSE Idle]
    /\ UNCHANGED response

\* refresh_task, realtime_sync_task or the sync command calls sync_all_channels
sync_all_channels_start(p) ==
    /\ IsFree(p)
    /\ Begin(p, [Idle EXCEPT !.op = "sync", !.pc = "observe", !.ch = "today"])
    /\ UNCHANGED <<asked_at, last_checked_action_id, unlogged,
                   reservations, last_id, action_log, sms_outbox, blocked_hours,
                   DEFAULT_HOURS, clock, schema_has_status, channels>>

sync_channel_with_headers_observe(p) ==
    /\ At(p, "sync", "observe")
    /\ IF states_match(get_channel_state(channels[req[p].ch]), get_database_state(req[p].ch))
       THEN sync_all_channels_next(p)
       ELSE Goto(p, "purge")
    /\ UNCHANGED <<asked_at, last_checked_action_id, unlogged,
                   reservations, last_id, action_log, sms_outbox, blocked_hours,
                   DEFAULT_HOURS, clock, schema_has_status, channels>>

\* channel.purge(limit=200), then the query whose rows will be posted
sync_channel_with_headers_purge(p) ==
    /\ At(p, "sync", "purge")
    /\ channels' = [channels EXCEPT ![req[p].ch] = Purge(@)]
    /\ Begin(p, [req[p] EXCEPT !.pc = "post", !.data = Rebuild(req[p].ch)])
    /\ UNCHANGED <<asked_at, last_checked_action_id, unlogged,
                   reservations, last_id, action_log, sms_outbox, blocked_hours,
                   DEFAULT_HOURS, clock, schema_has_status>>

\* one channel.send; after the last one the run leaves the channel
sync_channel_with_headers_post(p) ==
    /\ At(p, "sync", "post")
    /\ channels' = [channels EXCEPT ![req[p].ch] = Append(@, Head(req[p].data))]
    /\ IF Tail(req[p].data) = <<>>
       THEN sync_all_channels_next(p)
       ELSE Begin(p, [req[p] EXCEPT !.data = Tail(@)])
    /\ UNCHANGED <<asked_at, last_checked_action_id, unlogged,
                   reservations, last_id, action_log, sms_outbox, blocked_hours,
                   DEFAULT_HOURS, clock, schema_has_status>>

refresh_task ==
    /\ channels' = sync_all_channels(channels)
    /\ UNCHANGED <<asked_at, last_checked_action_id, unlogged,
                   reservations, last_id, action_log, sms_outbox, blocked_hours,
                   DEFAULT_HOURS, clock, schema_has_status, req, response>>

\* the bot process is restarted while a run is between its purge and its last
\* send: the runs are gone, and on_ready sets last_checked_action_id to MAX(id)
bot_restart ==
    /\ \E p \in Workers : At(p, "sync", "post")
    /\ req' = [p \in Workers |-> IF req[p].op = "sync" THEN Idle ELSE req[p]]
    /\ last_checked_action_id' = Len(action_log)
    /\ UNCHANGED <<asked_at, unlogged,
                   reservations, last_id, action_log, sms_outbox, blocked_hours,
                   DEFAULT_HOURS, clock, schema_has_status, channels, response>>

\* the sync of all channels whatever the audit log holds
RealtimeSyncAlways ==
    /\ last_checked_action_id' = Len(action_log)
    /\ channels' = sync_all_channels(channels)
    /\ UNCHANGED <<asked_at, unlogged,
                   reservations, last_id, action_log, sms_outbox, blocked_hours,
                   DEFAULT_HOURS, clock, schema_has_status, req, response>>

\* realtime_sync_task, every 5 seconds: the audit rows with id > last_checked_action_id;
\* if there are any, the id of the last one is kept and all channels are reconciled
realtime_sync_task ==
    /\ IF Len(action_log) > last_checked_action_id
       THEN /\ last_checked_action_id' = Len(action_log)
            /\ channels' = sync_all_channels(channels)
       ELSE UNCHANGED <<last_checked_action_id, channels>>
    /\ UNCHANGED <<asked_at, unlogged,
                   reservations, last_id, action_log, sms_outbox, blocked_hours,
                   DEFAULT_HOURS, clock, schema_has_status, req, response>>

\* the channels sync_all_channels has finished when it is at work on channel at
SyncedBefore(ch, at) ==
    \/ ch = "today" /\ at # "today"
    \/ ch = "confirmed" /\ at = "pending"

\* what sync_channel_with_headers leaves when one of its awaits raises: the
\* channel as it was (history or purge raised), or purged with the first
\* messages of the rebuild (a send raised)
PartialSync(msgs, status_type) ==
    {msgs} \cup
    (IF states_match(get_channel_state(msgs), get_database_state(status_type))
     THEN {}
     ELSE {Purge(msgs) \o SubSeq(Rebuild(status_type), 1, n) :
              n \in 0..(Len(Rebuild(status_type)) - 1)})

\* a tick of realtime_sync_task whose sync_all_channels raises in channel at:
\* the id of the last audit row is already kept, the except branch logs the error
realtime_sync_task_raises ==
    /\ Len(action_log) > last_checked_action_id
    /\ last_checked_action_id' = Len(action_log)
    /\ \E at \in ChannelTypes :
           \E part \in PartialSync(channels[at], at) :
               channels' = [ch \in ChannelTypes |->
                               IF SyncedBefore(ch, at)
                               THEN sync_channel_with_headers(channels[ch], ch)
                               ELSE IF ch = at THEN part ELSE channels[ch]]
    /\ UNCHANGED <<asked_at, unlogged,
                   reservations, last_id, action_log, sms_outbox, blocked_hours,
                   DEFAULT_HOURS, clock, schema_has_status, req, response>>

\* the bot command sync: two replies in the channel of the command around
\* sync_all_channels
sync_command ==
    /\ channels' = sync_all_channels(channels)
    /\ response' = Resp("sync", "ok", "canales_sincronizados")
    /\ UNCHANGED <<asked_at, last_checked_action_id, unlogged,
                   reservations, last_id, action_log, sms_outbox, blocked_hours,
                   DEFAULT_HOURS, clock, schema_has_status, req>>

IsCardOf(m, rid) == m.kind = "embed" /\ m.footer = rid

HasCard(ch, rid) == \E i \in 1..Len(channels[ch]) : IsCardOf(channels[ch][i], rid)

\* interaction.message.delete(): the clicked card goes, if it is still there
DeleteCard(msgs, rid) ==
    IF \E i \in 1..Len(msgs) : IsCardOf(msgs[i], rid)
    THEN LET i == CHOOSE j \in 1..Len(msgs) :
                      IsCardOf(msgs[j], rid) /\ \A k \in 1..(j - 1) : ~IsCardOf(msgs[k], rid)
         IN  SubSeq(msgs, 1, i - 1) \o SubSeq(msgs, i + 1, Len(msgs))
    ELSE msgs

BotOps == {"bot_approve", "bot_cancel"}

\* the handlers of the bot run on one event loop: one is followed at a time
BotFree == \A q \in Workers : req[q].op \notin BotOps


----------------------------------------------------------------------------
(* Dashboard approve: ConfirmButton.callback *)

ConfirmButton_callback_select(p, rid, user) ==
    /\ IsFree(p)
    /\ BotFree
    /\ HasCard("pending", rid)
    /\ IF ~Exists(rid) THEN Return(p, Resp("bot_approve", "not_found", "reserva_no_encontrada"))
       ELSE IF Truthy(RowOf(rid).restaurant_confirmed)
       THEN Return(p, Resp("bot_approve", "rejected", "ya_confirmada"))
       ELSE Begin(p,
                [Idle EXCEPT !.op = "bot_approve", !.pc = "update", !.rid = rid,
                             !.ch = "pending", !.actor = user])
    /\ UNCHANGED <<asked_at, last_checked_action_id, unlogged,
                   reservations, last_id, action_log, sms_outbox, blocked_hours,
                   DEFAULT_HOURS, clock, schema_has_status, channels>>

\* UPDATE ... SET restaurant_confirmed = 1, status = 'confirmed': without a column
\* status the statement raises and the callback ends there
ConfirmButton_callback_update(p) ==
    /\ At(p, "bot_approve", "update")
    /\ IF schema_has_status
       THEN /\ reservations' = UpdateWhereId(req[p].rid, SetRestaurantConfirmed)
            /\ Committed(p)
            /\ Goto(p, "log")
       ELSE /\ Return(p, Resp("bot_approve", "error", "no_such_column"))
            /\ UNCHANGED <<reservations, unlogged>>
    /\ UNCHANGED <<asked_at, last_checked_action_id,
                   last_id, action_log, sms_outbox, blocked_hours, DEFAULT_HOURS,
                   clock, schema_has_status, channels>>

ConfirmButton_callback_log(p) ==
    /\ At(p, "bot_approve", "log")
    /\ log_action(req[p].rid, "restaurant_confirmed", req[p].actor)
    /\ Goto(p, "sms")
    /\ Logged(p)
    /\ UNCHANGED <<asked_at, last_checked_action_id,
                   reservations, last_id, sms_outbox, blocked_hours, DEFAULT_HOURS,
                   clock, schema_has_status, channels>>

\* send_sms, interaction.message.delete(), sync_all_channels() and the followup
ConfirmButton_callback_sms(p, delivered) ==
    /\ At(p, "bot_approve", "sms")
    /\ sms_outbox' = sms_outbox (+) send_sms(req[p].rid, "approved", "customer")
    /\ channels' = sync_all_channels(
           [channels EXCEPT ![req[p].ch] = DeleteCard(@, req[p].rid)])
    /\ Return(p, Done("bot_approve", "reserva_confirmada", req[p].rid, delivered))
    /\ UNCHANGED <<asked_at, last_checked_action_id, unlogged,
                   reservations, last_id, action_log, blocked_hours, DEFAULT_HOURS,
                   clock, schema_has_status>>

----------------------------------------------------------------------------
(* Dashboard cancel: CancelButton.callback and CancelModal.on_submit *)

CancelModal_on_submit_select(p, ch, rid, user) ==
    /\ IsFree(p)
    /\ BotFree
    /\ HasCard(ch, rid)
    /\ IF ~Exists(rid) THEN Return(p, Resp("bot_cancel", "not_found", "reserva_no_encontrada"))
       ELSE IF Truthy(RowOf(rid).cancelled)
       THEN Return(p, Resp("bot_cancel", "rejected", "ya_cancelada"))
       ELSE Begin(p,
                [Idle EXCEPT !.op = "bot_cancel", !.pc = "update", !.rid = rid,
                             !.ch = ch, !.actor = user])
    /\ UNCHANGED <<asked_at, last_checked_action_id, unlogged,
                   reservations, last_id, action_log, sms_outbox, blocked_hours,
                   DEFAULT_HOURS, clock, schema_has_status, channels>>

CancelModal_on_submit_update(p) ==
    /\ At(p, "bot_cancel", "update")
    /\ reservations' = UpdateWhereId(req[p].rid, SetCancelled(req[p].actor))
    /\ Goto(p, "log")
    /\ Committed(p)
    /\ UNCHANGED <<asked_at, last_checked_action_id,
                   last_id, action_log, sms_outbox, blocked_hours, DEFAULT_HOURS,
                   clock, schema_has_status, channels>>

CancelModal_on_submit_log(p) ==
    /\ At(p, "bot_cancel", "log")
    /\ log_action(req[p].rid, "cancelled", req[p].actor)
    /\ Goto(p, "sms")
    /\ Logged(p)
    /\ UNCHANGED <<asked_at, last_checked_action_id,
                   reservations, last_id, sms_outbox, blocked_hours, DEFAULT_HOURS,
                   clock, schema_has_status, channels>>

\* send_sms, interaction.message.delete() and the followup
CancelModal_on_submit_sms(p, delivered) ==
    /\ At(p, "bot_cancel", "sms")
    /\ sms_outbox' = sms_outbox (+) send_sms(req[p].rid, "cancelled", "customer")
    /\ channels' = [channels EXCEPT ![req[p].ch] = DeleteCard(@, req[p].rid)]
    /\ Return(p, Done("bot_cancel", "reserva_cancelada", req[p].rid, delivered))
    /\ UNCHANGED <<asked_at, last_checked_action_id, unlogged,
                   reservations, last_id, action_log, blocked_hours, DEFAULT_HOURS,
                   clock, schema_has_status>>

----------------------------------------------------------------------------
(* Blocked hours and the clock *)

\* INSERT INTO blocked_hours (fecha, hora)
BlockHour(blocked, fecha, hora) == blocked \cup {<<fecha, hora>>}

UnblockWholeDate(blocked, fecha, hora) == {b \in blocked : b[1] # fecha}

\* DELETE FROM blocked_hours WHERE fecha = ? AND hora = ?
UnblockHour(blocked, fecha, hora) == blocked \ {<<fecha, hora>>}

\* POST /api/admin/blocked-hours/<fecha>/<hora>
admin_block_hour(fecha, hora) ==
    /\ <<fecha, hora>> \notin blocked_hours
    /\ blocked_hours' = BlockHour(blocked_hours, fecha, hora)
    /\ response' = Resp("block", "ok", "hora_bloqueada")
    /\ UNCHANGED <<asked_at, last_checked_action_id, unlogged,
                   reservations, last_id, action_log, sms_outbox, DEFAULT_HOURS,
                   clock, schema_has_status, channels, req>>

\* DELETE /api/admin/blocked-hours/<fecha>/<hora>
admin_unblock_hour(fecha, hora) ==
    /\ <<fecha, hora>> \in blocked_hours
    /\ blocked_hours' = UnblockHour(blocked_hours, fecha, hora)
    /\ response' = Resp("unblock", "ok", "hora_desbloqueada")
    /\ UNCHANGED <<asked_at, last_checked_action_id, unlogged,
                   reservations, last_id, action_log, sms_outbox, DEFAULT_HOURS,
                   clock, schema_has_status, channels, req>>

\* the requests that find the hour already blocked, or not blocked: 400, no write
admin_block_hour_rejected(fecha, hora) ==
    /\ \/ /\ <<fecha, hora>> \in blocked_hours
          /\ response' = Resp("block", "rejected", "ya_bloqueada")
       \/ /\ <<fecha, hora>> \notin blocked_hours
          /\ response' = Resp("unblock", "rejected", "no_estaba_bloqueada")
    /\ UNCHANGED <<asked_at, last_checked_action_id, unlogged,
                   reservations, last_id, action_log, sms_outbox, blocked_hours,
                   DEFAULT_HOURS, clock, schema_has_status, channels, req>>

HasDuplicates(hours) ==
    \E i, j \in 1..Len(hours) : i < j /\ hours[i] = hours[j]

\* POST /api/admin/blocked-hours/<fecha>/block-all: the date's rows are deleted
\* and one row per template entry is inserted; a repeated entry breaks
\* UNIQUE(fecha, hora) and nothing is committed
admin_block_all_hours(fecha) ==
    /\ IF HasDuplicates(DEFAULT_HOURS)
       THEN /\ response' = Resp("block_all", "error", "exception")
            /\ UNCHANGED blocked_hours
       ELSE /\ blocked_hours' = {b \in blocked_hours : b[1] # fecha}
                   \cup {<<fecha, DEFAULT_HOURS[i]>> : i \in 1..Len(DEFAULT_HOURS)}
            /\ response' = Resp("block_all", "ok", "todas_bloqueadas")
    /\ UNCHANGED <<asked_at, last_checked_action_id, unlogged,
                   reservations, last_id, action_log, sms_outbox, DEFAULT_HOURS,
                   clock, schema_has_status, channels, req>>

\* POST /api/admin/blocked-hours/<fecha>/unblock-all
admin_unblock_all_hours(fecha) ==
    /\ blocked_hours' = {b \in blocked_hours : b[1] # fecha}
    /\ response' = Resp("unblock_all", "ok", "todas_desbloqueadas")
    /\ UNCHANGED <<asked_at, last_checked_action_id, unlogged,
                   reservations, last_id, action_log, sms_outbox, DEFAULT_HOURS,
                   clock, schema_has_status, channels, req>>

\* sorted(list) of strings
RECURSIVE InsertSorted(_, _)
InsertSorted(sorted, h) ==
    IF sorted = <<>> THEN <<h>>
    ELSE IF TextLess(h, Head(sorted)) THEN <<h>> \o sorted
    ELSE <<Head(sorted)>> \o InsertSorted(Tail(sorted), h)

RECURSIVE SortedList(_)
SortedList(hours) ==
    IF hours = <<>> THEN <<>>
    ELSE InsertSorted(SortedList(SubSeq(hours, 1, Len(hours) - 1)), hours[Len(hours)])

\* sorted(list(S)) of a set of strings
RECURSIVE SortedSet(_)
SortedSet(S) ==
    IF S = {} THEN <<>>
    ELSE LET m == CHOOSE x \in S : \A y \in S \ {x} : TextLess(x, y)
         IN  <<m>> \o SortedSet(S \ {m})

\* POST /api/admin/default-hours
admin_set_default_hours(new_hours) ==
    /\ IF new_hours = <<>>
       THEN /\ response' = Resp("set_hours", "rejected", "sin_horarios")
            /\ UNCHANGED DEFAULT_HOURS
       ELSE IF \E i \in 1..Len(new_hours) : ~strptime_HM(new_hours[i]).ok
       THEN /\ response' = Resp("set_hours", "rejected", "formato_invalido")
            /\ UNCHANGED DEFAULT_HOURS
       ELSE /\ DEFAULT_HOURS' = SortedList(new_hours)
            /\ response' = Resp("set_hours", "ok", "horarios_actualizados")
    /\ UNCHANGED <<asked_at, last_checked_action_id, unlogged,
                   reservations, last_id, action_log, sms_outbox, blocked_hours,
                   clock, schema_has_status, channels, req>>

\* GET /api/available-hours?fecha=...: the JSON answer
api_available_hours_get(fecha) ==
    /\ response' = [op |-> "available_hours", status |-> "ok", message |-> "",
                    id |-> fecha, sms_sent |-> FALSE,
                    hours |-> SortedSet(api_available_hours(fecha)),
                    all_blocked |-> api_available_hours(fecha) = {}]
    /\ asked_at' = clock
    /\ UNCHANGED <<last_checked_action_id, unlogged,
                   reservations, last_id, action_log, sms_outbox, blocked_hours,
                   DEFAULT_HOURS, clock, schema_has_status, channels, req>>

\* the instants the clock visits each day: either side of 12:00 and of 19:00
ClockPoints == <<<<11, 59>>, <<12, 0>>, <<18, 59>>, <<19, 0>>>>

ClockIndex == CHOOSE i \in 1..Len(ClockPoints) :
                  ClockPoints[i] = <<clock.hour, clock.minute>>

Tick ==
    /\ IF ClockIndex < Len(ClockPoints)
       THEN clock' = [clock EXCEPT !.hour = ClockPoints[ClockIndex + 1][1],
                                   !.minute = ClockPoints[ClockIndex + 1][2]]
       ELSE /\ clock.day < MaxDay
            /\ clock' = [day |-> clock.day + 1, hour |-> ClockPoints[1][1],
                         minute |-> ClockPoints[1][2]]
    /\ UNCHANGED <<asked_at, last_checked_action_id, unlogged,
                   reservations, last_id, action_log, sms_outbox, blocked_hours,
                   DEFAULT_HOURS, schema_has_status, channels, req, response>>

\* delete_old_reservations.py, run by cron: the reservations dated before
\* today are deleted, then the audit rows older than the retention period.
\* The listing of the rows to delete reads the column status; without that
\* column it raises and the run is rolled back.  date('now') is the UTC date,
\* which is the local date at every instant the clock visits.
OldReservations == {r \in reservations : r.fecha < clock.day}

cleanup_old_reservations ==
    /\ IF OldReservations = {} \/ ~schema_has_status
       THEN UNCHANGED <<reservations, action_log>>
       ELSE /\ reservations' = reservations \ OldReservations
            /\ action_log' = SelectSeq(action_log,
                                 LAMBDA a : a.timestamp >= Stamp - LOG_RETENTION_DAYS * 1440)
    /\ UNCHANGED <<asked_at, last_checked_action_id, unlogged,
                   last_id, sms_outbox, blocked_hours,
                   DEFAULT_HOURS, clock, schema_has_status, channels, req, response>>

----------------------------------------------------------------------------
(* Specifications *)

InFlightCreates == Cardinality({q \in Workers : req[q].op = "create"})

\* the create inputs offered while fewer than limit reservations exist or are under way
Upto(limit, creates) == IF last_id + InFlightCreates < limit THEN creates ELSE {}

\* POST /reservar by worker p
CreateStep(p, creates, tokens, outcomes) ==
    \/ \E data \in creates : create_reservation_check(p, data)
    \/ create_reservation_allowed(p)
    \/ \E token \in tokens : create_reservation_insert(p, token)
    \/ create_reservation_log(p)
    \/ \E ok \in outcomes : create_reservation_sms(p, ok)

\* the customer's links, served by worker p
CustomerStep(p, tokens, outcomes) ==
    \/ \E token \in tokens : confirm_reservation_select(p, token)
    \/ confirm_reservation_update(p)
    \/ confirm_reservation_log(p)
    \/ \E ok \in outcomes : confirm_reservation_sms(p, ok)
    \/ \E token \in tokens : cancel_reservation_select(p, token)
    \/ cancel_reservation_update(p)
    \/ cancel_reservation_log(p)
    \/ \E ok \in outcomes : cancel_reservation_sms(p, ok)

\* the admin API, served by worker p
AdminStep(p, ids, outcomes) ==
    \/ \E rid \in ids : admin_cancel_reservation_select(p, rid)
    \/ admin_cancel_reservation_update(p)
    \/ admin_cancel_reservation_log(p)
    \/ \E ok \in outcomes : admin_cancel_reservation_sms(p, ok)
    \/ \E rid \in ids : admin_approve_reservation_select(p, rid)
    \/ admin_approve_reservation_update(p)
    \/ admin_approve_reservation_log(p)
    \/ \E ok \in outcomes : admin_approve_reservation_sms(p, ok)

\* the dashboard buttons; p stands for the interaction being handled
BotStep(p, ids, outcomes) ==
    \/ \E rid \in ids, user \in Staff : ConfirmButton_callback_select(p, rid, user)
    \/ ConfirmButton_callback_update(p)
    \/ ConfirmButton_callback_log(p)
    \/ \E ok \in outcomes : ConfirmButton_callback_sms(p, ok)
    \/ \E ch \in ChannelTypes, rid \in ids, user \in Staff :
           CancelModal_on_submit_select(p, ch, rid, user)
    \/ CancelModal_on_submit_update(p)
    \/ CancelModal_on_submit_log(p)
    \/ \E ok \in outcomes : CancelModal_on_submit_sms(p, ok)

\* Spec: concurrent requests of two workers about one large-party reservation
CreateInputs ==
    {[nombre |-> NameAna, telefono |-> PhoneSpaced, personas |-> 5, fecha |-> 2, hora |-> T2030]}

Next ==
    \/ \E p \in Workers :
          \/ CreateStep(p, Upto(MaxRaced, CreateInputs), {"tokA"}, {TRUE})
          \/ CustomerStep(p, {"tokA"}, {TRUE})
          \/ AdminStep(p, 1..MaxRaced, {TRUE})
          \/ BotStep(p, 1..MaxRaced, {TRUE})
    \/ refresh_task

Spec == Init /\ [][Next]_vars

\* SpecSeq: one request at a time about one reservation, where an SMS may fail
\* and log_action may raise
CreateInputsSeq ==
    {[nombre |-> NameAna, telefono |-> PhoneSpaced, personas |-> n, fecha |-> 2, hora |-> T2030] : n \in {4, 5}}

NextSeq ==
    \/ CreateStep("w1", Upto(MaxSeq, CreateInputsSeq), Tokens, BOOLEAN)
    \/ CustomerStep("w1", Tokens, BOOLEAN)
    \/ AdminStep("w1", 1..MaxSeq, BOOLEAN)
    \/ BotStep("w1", 1..MaxSeq, BOOLEAN)
    \/ log_action_raises("w1")
    \/ refresh_task

SpecSeq == Init /\ [][NextSeq]_vars

\* SpecBook: bookings and the customer's links, one request at a time; three
\* spellings of two phone numbers, small and large parties, today and later
\* dates, two tokens
CreateInputsBook ==
    {[nombre |-> NameAna, telefono |-> t, personas |-> n, fecha |-> f, hora |-> T2030] :
        t \in {PhoneSpaced, PhoneBare, PhoneOther}, n \in {4, 5}, f \in {1, 2}}

NextBook ==
    \/ CreateStep("w1", Upto(MaxRes, CreateInputsBook), Tokens, {TRUE})
    \/ CustomerStep("w1", Tokens, {TRUE})

SpecBook == Init /\ [][NextBook]_vars

\* SpecGate: the booking gate of create_reservation under a moving clock and
\* changing blocked hours
CreateInputsGate ==
    {[nombre |-> NameAna, telefono |-> PhoneSpaced, personas |-> n, fecha |-> f, hora |-> h] :
        n \in {-2, 0, 4}, f \in 0..(MaxDay + 1), h \in {T1330, T1900, T2030}}

BlockInputs == {<<f, h>> : f \in {1, 2}, h \in {T1330, T2030}}

\* the hours blocked while the gate is explored: today's lunch, tomorrow's dinner
GateBlockInputs == {<<1, T1330>>, <<2, T2030>>}

NextGate ==
    \/ CreateStep("w1", Upto(MaxGate, CreateInputsGate), {"tokA"}, {TRUE})
    \/ Tick
    \/ \E b \in GateBlockInputs : admin_block_hour(b[1], b[2])
    \/ \E b \in GateBlockInputs : admin_unblock_hour(b[1], b[2])

SpecGate == Init /\ [][NextGate]_vars

\* SpecHours: the slot template, the blocked hours and the availability query
\* under a moving clock
TemplateInputs ==
    {<<T2030, T1330, T1900>>, <<T2100, T2100>>, <<>>, <<T2500>>}

\* the dates whose hours are blocked or unblocked all at once
BlockAllDates == {2}

QueryDates == 0..(MaxDay + 1)

NextHours ==
    \/ \E new_hours \in TemplateInputs : admin_set_default_hours(new_hours)
    \/ \E b \in BlockInputs : admin_block_hour(b[1], b[2])
    \/ \E b \in BlockInputs : admin_unblock_hour(b[1], b[2])
    \/ \E b \in BlockInputs : admin_block_hour_rejected(b[1], b[2])
    \/ \E fecha \in BlockAllDates : admin_block_all_hours(fecha)
    \/ \E fecha \in BlockAllDates : admin_unblock_all_hours(fecha)
    \/ \E fecha \in QueryDates : api_available_hours_get(fecha)
    \/ Tick

SpecHours == Init /\ [][NextHours]_vars

\* SpecDash: the dashboard channels over bookings of small and large parties,
\* for today and for tomorrow, under plain names and under a name that holds
\* the star character; one request at a time
CreateInputsDash ==
    {[nombre |-> n, telefono |-> PhoneBare, personas |-> k, fecha |-> f, hora |-> T2030] :
        n \in {NameAna, NameStar}, k \in {4, 5}, f \in {1, 2}}

NextDash ==
    \/ CreateStep("w1", Upto(MaxSeq, CreateInputsDash), Tokens, {TRUE})
    \/ CustomerStep("w1", Tokens, {TRUE})
    \/ AdminStep("w1", 1..MaxSeq, {TRUE})
    \/ BotStep("w1", 1..MaxSeq, {TRUE})
    \/ refresh_task
    \/ sync_command

SpecDash == Init /\ [][NextDash]_vars

\* SpecTick: bookings, the customer's links and the dashboard buttons, one
\* request at a time, with the periodic refresh and the real-time task of the bot
NextTick ==
    \/ CreateStep("w1", Upto(MaxSeq, CreateInputsDash), {"tokA"}, {TRUE})
    \/ CustomerStep("w1", {"tokA"}, {TRUE})
    \/ BotStep("w1", 1..MaxSeq, {TRUE})
    \/ refresh_task
    \/ realtime_sync_task

SpecTick == Init /\ [][NextTick]_vars

\* SpecLive: SpecTick where the two timers of the bot keep firing
SpecLive == SpecTick /\ WF_vars(refresh_task) /\ WF_vars(realtime_sync_task)

\* the steps of a reconciliation run of task p
SyncStep(p) ==
    \/ sync_all_channels_start(p)
    \/ sync_channel_with_headers_observe(p)
    \/ sync_channel_with_headers_purge(p)
    \/ sync_channel_with_headers_post(p)

\* SpecOverlap: two tasks of the bot's event loop that reconcile the channels
\* (the periodic refresh and the real-time task, a button or the sync command)
\* while a reservation is booked, confirmed or cancelled
CreateInputsOverlap ==
    {[nombre |-> NameAna, telefono |-> PhoneBare, personas |-> k, fecha |-> f, hora |-> T2030] :
        k \in {4, 5}, f \in {1, 2}}

NextOverlap ==
    \/ CreateStep("w1", Upto(MaxSeq, CreateInputsOverlap), {"tokA"}, {TRUE})
    \/ CustomerStep("w1", {"tokA"}, {TRUE})
    \/ \E p \in Workers : SyncStep(p)

SpecOverlap == Init /\ [][NextOverlap]_vars

\* SpecInterrupt: a reconciliation run of the bot followed step by step, the
\* bot restarted in the middle of a rebuild, and the runs that come after it
NextInterrupt ==
    \/ CreateStep("w1", Upto(MaxSeq, CreateInputsDash), {"tokA"}, {TRUE})
    \/ CustomerStep("w1", {"tokA"}, {TRUE})
    \/ SyncStep("w2")
    \/ bot_restart
    \/ refresh_task

SpecInterrupt == Init /\ [][NextInterrupt]_vars

\* SpecSweep: bookings and the customer's links while the days pass and the
\* daily cleanup runs
CreateInputsSweep ==
    {[nombre |-> NameAna, telefono |-> PhoneBare, personas |-> 4, fecha |-> f, hora |-> T2030] :
        f \in {1, 2}}

NextSweep ==
    \/ CreateStep("w1", Upto(MaxSeq, CreateInputsSweep), {"tokA"}, {TRUE})
    \/ CustomerStep("w1", {"tokA"}, {TRUE})
    \/ Tick
    \/ cleanup_old_reservations

SpecSweep == Init /\ [][NextSweep]_vars

\* SpecAvail: the availability query while tables are booked, hours are
\* blocked, the template is replaced and the clock moves
AvailTemplates == {<<T2030, T1330, T1900>>}

AvailBlockInputs == {<<1, T2030>>}

\* the dates asked for: today and tomorrow as the run starts
AvailQueryDates == {1, 2}

NextAvail ==
    \/ CreateStep("w1", Upto(MaxGate, CreateInputsSweep), {"tokA"}, {TRUE})
    \/ \E new_hours \in AvailTemplates : admin_set_default_hours(new_hours)
    \/ \E b \in AvailBlockInputs : admin_block_hour(b[1], b[2])
    \/ \E b \in AvailBlockInputs : admin_unblock_hour(b[1], b[2])
    \/ \E fecha \in AvailQueryDates : api_available_hours_get(fecha)
    \/ Tick

SpecAvail == Init /\ [][NextAvail]_vars

\* SpecOrder: two small parties book tables for tomorrow, one for 13:00 and
\* one for 9:30 with the hour written in one digit (strptime takes it), the
\* customers confirm or cancel, and the channels are refreshed
CreateInputsOrder ==
    {[nombre |-> NameAna, telefono |-> PhoneBare, personas |-> 2, fecha |-> 2, hora |-> T1300],
     [nombre |-> NameAna, telefono |-> PhoneOther, personas |-> 2, fecha |-> 2, hora |-> T0930]}

NextOrder ==
    \/ CreateStep("w1", Upto(MaxRes, CreateInputsOrder), Tokens, {TRUE})
    \/ CustomerStep("w1", Tokens, {TRUE})
    \/ refresh_task

SpecOrder == Init /\ [][NextOrder]_vars

\* SpecGet: the confirm link opened (GET) and submitted (POST) and the cancel
\* link, for the token of a reservation and for a token of none, while the
\* clock moves past the reservation
CreateInputsGet ==
    {[nombre |-> NameAna, telefono |-> PhoneBare, personas |-> k, fecha |-> f, hora |-> T2030] :
        k \in {4, 5}, f \in {1, 2}}

NextGet ==
    \/ CreateStep("w1", Upto(MaxSeq, CreateInputsGet), {"tokA"}, {TRUE})
    \/ CustomerStep("w1", Tokens, {TRUE})
    \/ \E token \in Tokens : confirm_reservation_get(token)
    \/ Tick

SpecGet == Init /\ [][NextGet]_vars

\* SpecSlots: templates with two-digit hours and with an hour written in one
\* digit (strptime takes both), blocked hours and the availability query
\* under a moving clock
SlotTemplates == {<<T2030, T1330>>, <<T1300, T0930>>, <<T2100, T0930, T1900>>}

SlotBlockInputs == {<<2, T1300>>, <<2, T1900>>}

NextSlots ==
    \/ \E new_hours \in SlotTemplates : admin_set_default_hours(new_hours)
    \/ \E b \in SlotBlockInputs : admin_block_hour(b[1], b[2])
    \/ \E b \in SlotBlockInputs : admin_unblock_hour(b[1], b[2])
    \/ \E fecha \in QueryDates : api_available_hours_get(fecha)
    \/ Tick

SpecSlots == Init /\ [][NextSlots]_vars

\* SpecBulk: reconciliation runs over a full book: every day from tomorrow on
\* holds one confirmed small party, as many days as make the rebuilt
\* 'confirmed' channel (a header and a card per day) exactly HISTORY_LIMIT
\* messages long, or two more.  Nothing is booked or changed while the runs
\* are followed.
BulkRow(i) ==
    [id |-> i,
     nombre |-> NameAna,
     telefono |-> clean_phone_number(PhoneBare),
     personas |-> 2,
     fecha |-> 1 + i,
     hora |-> T2030,
     user_confirmed |-> 1,
     restaurant_confirmed |-> 1,
     cancelled |-> ColumnDefault,
     cancelled_at |-> NULL,
     cancelled_by |-> NULL_TEXT,
     confirmation_token |-> "tok" \o ToString(i)]

InitBulk ==
    /\ \E n \in {HISTORY_LIMIT \div 2, HISTORY_LIMIT \div 2 + 1} :
           /\ reservations = {BulkRow(i) : i \in 1..n}
           /\ last_id = n
    /\ action_log = <<>>
    /\ sms_outbox = EmptyBag
    /\ blocked_hours = {}
    /\ DEFAULT_HOURS = <<T1300, T1330, T1400, T1430, T2030, T2100, T2130, T2200>>
    /\ clock = [day |-> 1, hour |-> 11, minute |-> 59]
    /\ schema_has_status \in BOOLEAN
    /\ channels = [ch \in ChannelTypes |-> <<>>]
    /\ req = [p \in Workers |-> Idle]
    /\ response = Resp("none", "none", "")
    /\ last_checked_action_id = 0
    /\ unlogged = <<>>
    /\ asked_at = NotAsked

\* a run starts while no channel has grown past the bound
BulkRoom == \A ch \in ChannelTypes : Len(channels[ch]) <= HISTORY_LIMIT + MaxBulk

NextBulk ==
    \/ BulkRoom /\ sync_all_channels_start("w1")
    \/ sync_channel_with_headers_observe("w1")
    \/ sync_channel_with_headers_purge("w1")
    \/ sync_channel_with_headers_post("w1")

SpecBulk == InitBulk /\ [][NextBulk]_vars

\* SpecRetry: bookings and the customer's links, one request at a time, with
\* the two timers of the bot, where the sync of a real-time tick may raise
NextRetry ==
    \/ CreateStep("w1", Upto(MaxSeq, CreateInputsGet), {"tokA"}, {TRUE})
    \/ CustomerStep("w1", {"tokA"}, {TRUE})
    \/ refresh_task
    \/ realtime_sync_task
    \/ realtime_sync_task_raises

SpecRetry == Init /\ [][NextRetry]_vars

----------------------------------------------------------------------------
(* Properties *)

LogCount(log, rid, action_type) ==
    Cardinality({i \in 1..Len(log) :
        log[i].reservation_id = rid /\ log[i].action_type = action_type})

SmsCount(rid, kind, to) == CopiesIn(SmsRow(rid, kind, to), sms_outbox)

Quiescent == \A p \in Workers : IsFree(p)

AwaitingCustomer(r)   == r.user_confirmed = 0 /\ r.cancelled = 0
AwaitingRestaurant(r) == r.user_confirmed = 1 /\ r.restaurant_confirmed = 0 /\ r.cancelled = 0
FullyConfirmed(r)     == r.user_confirmed = 1 /\ r.restaurant_confirmed = 1 /\ r.cancelled = 0
IsCancelled(r)        == r.cancelled = 1

\* C1: in every reachable state every stored reservation satisfies exactly one
\* of AwaitingCustomer, AwaitingRestaurant, FullyConfirmed and Cancelled.
C1_Partition ==
    \A r \in reservations :
        Cardinality({k \in 1..4 :
            \/ k = 1 /\ AwaitingCustomer(r)
            \/ k = 2 /\ AwaitingRestaurant(r)
            \/ k = 3 /\ FullyConfirmed(r)
            \/ k = 4 /\ IsCancelled(r)}) = 1

\* a reservation that went through confirmation and approval and was then cancelled
C1_Witness ==
    \E r \in reservations :
        /\ IsCancelled(r) /\ r.user_confirmed = 1 /\ r.restaurant_confirmed = 1
        /\ is_large_group(r.personas)

\* C2: once a reservation has cancelled = 1, no step changes any of its fields.
C2_CancelledIsFinal ==
    [][\A r \in reservations : r.cancelled = 1 => r \in reservations']_vars

\* C3: two POSTs of the confirmation link in sequence leave user_confirmed = 1
\* with exactly one user_confirmed audit row and exactly one customer
\* notification; a POST on a reservation that is already confirmed answers
\* "invalid" and changes nothing.
C3_ConfirmOnce ==
    \A r \in reservations :
        /\ LogCount(action_log, r.id, "user_confirmed") <= 1
        /\ SmsCount(r.id, "confirmed", "customer") <= 1
        /\ LogCount(action_log, r.id, "user_confirmed") = 1 => r.user_confirmed = 1
        /\ SmsCount(r.id, "confirmed", "customer") = 1 =>
               LogCount(action_log, r.id, "user_confirmed") = 1
        /\ (response.op = "confirm" /\ response.status = "ok" /\ response.id = r.id) =>
               /\ r.user_confirmed = 1
               /\ LogCount(action_log, r.id, "user_confirmed") = 1
               /\ SmsCount(r.id, "confirmed", "customer") = 1

C3_SecondCallChangesNothing ==
    \A token \in Tokens :
        (/\ confirm_reservation_select("w1", token)
         /\ \E r \in reservations : r.confirmation_token = token /\ r.user_confirmed = 1)
        => /\ UNCHANGED <<reservations, action_log, sms_outbox, channels, req>>
           /\ response' = Resp("confirm", "invalid", "enlace_invalido")

C3_ConfirmIdempotent == [](C3_ConfirmOnce) /\ [][C3_SecondCallChangesNothing]_vars

\* every token belongs to a reservation confirmed once, and the last request
\* was a further POST of one of them, answered "invalid"
C3_Witness ==
    /\ response = Resp("confirm", "invalid", "enlace_invalido")
    /\ Quiescent
    /\ \A token \in Tokens :
          \E r \in reservations :
              /\ r.confirmation_token = token
              /\ r.user_confirmed = 1 /\ r.cancelled = 0
              /\ LogCount(action_log, r.id, "user_confirmed") = 1
              /\ SmsCount(r.id, "confirmed", "customer") = 1

\* C4: when two POSTs of the same confirmation link run concurrently, there
\* is at most one user_confirmed audit row and one customer notification.
C4_OneConfirmWins ==
    \A r \in reservations :
        /\ LogCount(action_log, r.id, "user_confirmed") <= 1
        /\ SmsCount(r.id, "confirmed", "customer") <= 1

\* C5: whenever no request is under way, a reservation has its created row, has
\* user_confirmed = 1 exactly when it has a user_confirmed row, has cancelled = 1
\* exactly when it has a cancelled row, and has a restaurant_confirmed row only
\* with restaurant_confirmed = 1 (a large party is approved only with such a row).
C5_MutationAndAuditTogether ==
    Quiescent =>
        \A r \in reservations :
            /\ LogCount(action_log, r.id, "created") >= 1
            /\ r.user_confirmed = 1 <=> LogCount(action_log, r.id, "user_confirmed") >= 1
            /\ r.cancelled = 1 <=> LogCount(action_log, r.id, "cancelled") >= 1
            /\ LogCount(action_log, r.id, "restaurant_confirmed") >= 1 =>
                   r.restaurant_confirmed = 1
            /\ (is_large_group(r.personas) /\ r.restaurant_confirmed = 1) =>
                   LogCount(action_log, r.id, "restaurant_confirmed") >= 1

\* the mutation and the audit row of an operation are both in the given tables
CommittedIn(res, log, op, rid) ==
    \E r \in res :
        /\ r.id = rid
        /\ op = "create" => LogCount(log, rid, "created") = 1
        /\ op = "confirm" =>
               r.user_confirmed = 1 /\ LogCount(log, rid, "user_confirmed") >= 1
        /\ op \in {"admin_approve", "bot_approve"} =>
               r.restaurant_confirmed = 1 /\ LogCount(log, rid, "restaurant_confirmed") >= 1
        /\ op \in {"cancel", "admin_cancel", "bot_cancel"} =>
               r.cancelled = 1 /\ LogCount(log, rid, "cancelled") >= 1

SmsFails(p) == req[p].pc = "sms" /\ req'[p].pc = "idle" /\ ~response'.sms_sent

\* C6: when the SMS send of Create, CustomerConfirm, RestaurantApprove or
\* Cancel fails, the mutation and its audit row stay committed and the
\* operation reports success; Create answers success with sms_sent = false.
C6_SmsFailureKeepsTransition ==
    [][SmsFails("w1") =>
          /\ UNCHANGED <<reservations, action_log>>
          /\ CommittedIn(reservations', action_log', req["w1"].op, req["w1"].rid)
          /\ response'.op = req["w1"].op
          /\ response'.status = "ok"
          /\ response'.id = req["w1"].rid
          /\ req["w1"].op = "create" =>
                 response' = [op |-> "create", status |-> "ok",
                              message |-> "reserva_registrada",
                              id |-> req["w1"].rid, sms_sent |-> FALSE]]_vars

\* a Create answered success with sms_sent = false, its row and audit row stored
C6_Witness ==
    /\ response.op = "create" /\ response.status = "ok" /\ ~response.sms_sent
    /\ CommittedIn(reservations, action_log, "create", response.id)
    /\ SmsCount(response.id, "confirm_link", "customer") = 1

NewRows == {n \in reservations' : \A r \in reservations : r.id # n.id}

C7_StoredRow ==
    \A n \in NewRows :
        /\ n.user_confirmed = 0
        /\ n.restaurant_confirmed = (IF n.personas > LARGE_GROUP_THRESHOLD THEN 0 ELSE 1)
        /\ \A r \in reservations : r.confirmation_token # n.confirmation_token
        /\ Cardinality(NewRows) = 1

C7_OneCreatedRow ==
    \A r \in reservations :
        /\ LogCount(action_log, r.id, "created") <= 1
        /\ \A r2 \in reservations :
               r2.id # r.id => r2.confirmation_token # r.confirmation_token
        /\ (response.op = "create" /\ response.status = "ok" /\ response.id = r.id) =>
               LogCount(action_log, r.id, "created") = 1

\* C7: every successful Create stores a row with user_confirmed = 0,
\* restaurant_confirmed = not (personas > LARGE_GROUP_THRESHOLD), a token no
\* stored row has, and appends exactly one created audit row for the new id.
C7_CreateStores == [](C7_OneCreatedRow) /\ [][C7_StoredRow]_vars

\* a party of the threshold size stored approved, a larger one stored unapproved
C7_Witness ==
    /\ \E r \in reservations :
          /\ r.personas = LARGE_GROUP_THRESHOLD /\ r.restaurant_confirmed = 1
          /\ LogCount(action_log, r.id, "created") = 1
    /\ \E r \in reservations :
          /\ r.personas = LARGE_GROUP_THRESHOLD + 1 /\ r.restaurant_confirmed = 0
          /\ r.user_confirmed = 0
          /\ LogCount(action_log, r.id, "created") = 1
    /\ response.op = "create" /\ response.status = "ok"

\* an active, customer-confirmed reservation of the phone, dated today or later
DuplicateOf(telefono) ==
    \E r \in reservations :
        /\ r.telefono = clean_phone_number(telefono)
        /\ r.user_confirmed = 1
        /\ r.cancelled = 0
        /\ r.fecha >= clock.day

\* C8: a Create for a phone that has a customer-confirmed, uncancelled
\* reservation dated today or later is rejected as a duplicate and stores
\* nothing, however the phone is spelled; once that reservation is cancelled the
\* Create is not rejected as a duplicate and goes on to the booking gate.
C8_DuplicatePrevention ==
    [][\A data \in CreateInputsBook :
          create_reservation_check("w1", data) =>
              IF DuplicateOf(data.telefono)
              THEN /\ response' = Resp("create", "rejected", "ya_tienes_reserva")
                   /\ UNCHANGED <<reservations, last_id, action_log, sms_outbox, req>>
              ELSE /\ req'["w1"].op = "create" /\ req'["w1"].pc = "allowed"
                   /\ UNCHANGED response]_vars

\* the first reservation was confirmed, then cancelled, and a second one of the
\* same phone was stored after it
C8_Witness ==
    \E r1, r2 \in reservations :
        /\ r1.id < r2.id
        /\ r1.telefono = r2.telefono
        /\ r1.user_confirmed = 1 /\ r1.cancelled = 1
        /\ r2.cancelled = 0
        /\ LogCount(action_log, r2.id, "created") = 1

\* the Booking-Window Policy table, at the current clock
WindowAllows(fecha, hora) ==
    IF fecha < clock.day THEN FALSE
    ELSE IF fecha > clock.day THEN TRUE
    ELSE IF clock.hour < 12 THEN TRUE
    ELSE IF clock.hour < 19 THEN strptime_HM(hora).hour >= 19
    ELSE FALSE

\* C9: for an unblocked slot, is_booking_allowed denies every past date, allows
\* every future date, and for today allows any request before 12:00, only the
\* requests for 19:00 or later from 12:00 to 18:59, and none from 19:00 on.
C9_BookingWindow ==
    [][create_reservation_allowed("w1") =>
          LET d == req["w1"].data
          IN  <<d.fecha, d.hora>> \notin blocked_hours =>
                  /\ is_booking_allowed(d.fecha, d.hora)[1] = WindowAllows(d.fecha, d.hora)
                  /\ req'["w1"].pc = "insert" <=> WindowAllows(d.fecha, d.hora)]_vars

\* a same-day lunch request was denied while lunch was being served
C9_Witness ==
    /\ response = Resp("create", "rejected", "sirviendo_almuerzo")
    /\ clock.hour >= 12 /\ clock.hour < 19

\* C10: a Create passes the gate only if the Booking-Window Policy allows it and
\* the requested time is one of the hours offered for the date at that moment.
C10_BothGates ==
    [][(create_reservation_allowed("w1") /\ req'["w1"].pc = "insert") =>
          LET d == req["w1"].data
          IN  /\ WindowAllows(d.fecha, d.hora)
              /\ d.hora \in api_available_hours(d.fecha)]_vars

\* the hours the availability query is to return for a date, at the current clock
ExpectedSlots(fecha) ==
    LET open == {DEFAULT_HOURS[i] : i \in 1..Len(DEFAULT_HOURS)}
                    \ {h \in {b[2] : b \in blocked_hours} : <<fecha, h>> \in blocked_hours}
    IN  IF fecha > clock.day THEN open
        ELSE IF fecha = clock.day /\ clock.hour < 19
        THEN {h \in open : strptime_HM(h).hour >= 19}
        ELSE {}

\* C11: the availability query returns exactly the unblocked template times
\* for a later date, of those only the times from 19:00 on for today before
\* 19:00, and nothing for today from 19:00 on or for a past date.
C11_AvailabilityQuery ==
    [][(response' # response /\ response'.op = "available_hours") =>
          /\ Range(response'.hours) = ExpectedSlots(response'.id)
          /\ Len(response'.hours) = Cardinality(ExpectedSlots(response'.id))
          /\ response'.all_blocked = (ExpectedSlots(response'.id) = {})]_vars

\* today before 19:00: of the template 13:30, 19:00, 20:30 the query returned
\* 19:00 and 20:30
C11_Witness ==
    /\ response.op = "available_hours"
    /\ response.id = clock.day /\ clock.hour < 19
    /\ response.hours = <<T1900, T2030>>
    /\ DEFAULT_HOURS = <<T1330, T1900, T2030>>
    /\ blocked_hours = {}

\* C12: blocking an hour that is not blocked and then unblocking it leaves the
\* blocked set as it was before the two operations.
C12_BlockUnblockRoundTrip ==
    [][\A b \in BlockInputs :
          /\ admin_block_hour(b[1], b[2]) =>
                 /\ b \notin blocked_hours /\ b \in blocked_hours'
                 /\ UnblockHour(blocked_hours', b[1], b[2]) = blocked_hours
          /\ admin_unblock_hour(b[1], b[2]) =>
                 /\ b \in blocked_hours /\ b \notin blocked_hours'
                 /\ blocked_hours' = blocked_hours \ {b}]_vars

\* an hour was blocked and then unblocked, and no hour is blocked as at the start
C12_Witness ==
    /\ response = Resp("unblock", "ok", "hora_desbloqueada")
    /\ blocked_hours = {}
    /\ get_available_hours_for_date(1) = {DEFAULT_HOURS[i] : i \in 1..Len(DEFAULT_HOURS)}

\* C13: once a channel has been reconciled, reconciling it again with the same
\* reservations stored finds it in step and deletes and posts nothing
C13_SecondRunWritesNothing ==
    [][refresh_task =>
          \A ch \in ChannelTypes :
              states_match(get_channel_state(channels'[ch]), get_database_state(ch))]_vars

\* the reservation is listed under some header of the derived state
InDerived(status_type, rid) ==
    \E k \in DOMAIN get_database_state(status_type) :
        rid \in Range(get_database_state(status_type)[k])

Created(rid) == ~Exists(rid) /\ Exists(rid)'

CustomerConfirmed(rid) ==
    /\ Exists(rid)
    /\ RowOf(rid).user_confirmed = 0
    /\ RowOf(rid)'.user_confirmed = 1

RestaurantApproved(rid) ==
    /\ Exists(rid)
    /\ RowOf(rid).restaurant_confirmed = 0
    /\ RowOf(rid)'.restaurant_confirmed = 1

\* C14 as stated: a large party is pending and not confirmed from its creation,
\* and confirmed and no longer pending from its approval
C14_PendingFromCreation ==
    [][\A rid \in 1..MaxSeq :
          /\ Created(rid) /\ is_large_group(RowOf(rid)'.personas)
                => InDerived("pending", rid)' /\ ~InDerived("confirmed", rid)'
          /\ RestaurantApproved(rid) /\ is_large_group(RowOf(rid).personas)
                => InDerived("confirmed", rid)' /\ ~InDerived("pending", rid)']_vars

\* C14: a large party is in neither derived state when created; the customer's
\* confirmation makes it pending and not confirmed; the approval of a pending
\* one makes it confirmed, its date not being past, and no longer pending
C14_PendingFromCustomerConfirm ==
    [][\A rid \in 1..MaxSeq :
          /\ Created(rid) /\ is_large_group(RowOf(rid)'.personas)
                => ~InDerived("pending", rid)' /\ ~InDerived("confirmed", rid)'
          /\ CustomerConfirmed(rid) /\ is_large_group(RowOf(rid).personas)
               /\ RowOf(rid).restaurant_confirmed = 0 /\ RowOf(rid).cancelled = 0
                => InDerived("pending", rid)' /\ ~InDerived("confirmed", rid)'
          /\ RestaurantApproved(rid) /\ InDerived("pending", rid)
                => /\ ~InDerived("pending", rid)'
                   /\ InDerived("confirmed", rid)' = (RowOf(rid).fecha >= clock.day)]_vars

\* an approved large party listed as confirmed and shown there, not among the pending
C14_Witness ==
    /\ Exists(1)
    /\ is_large_group(RowOf(1).personas)
    /\ response = Done("bot_approve", "reserva_confirmada", 1, TRUE)
    /\ InDerived("confirmed", 1) /\ ~InDerived("pending", 1)
    /\ HasCard("confirmed", 1) /\ ~HasCard("pending", 1)

\* C15: a cancelled reservation is listed in none of the derived states today,
\* confirmed and pending, whoever cancelled it
C15_CancelledNotListed ==
    \A r \in reservations :
        r.cancelled = 1 => \A status_type \in ChannelTypes : ~InDerived(status_type, r.id)

\* a reservation for today, confirmed by both sides and then cancelled by staff
\* from its card
C15_Witness ==
    /\ Exists(1)
    /\ RowOf(1).user_confirmed = 1 /\ RowOf(1).restaurant_confirmed = 1
    /\ RowOf(1).fecha = clock.day
    /\ RowOf(1).cancelled = 1 /\ RowOf(1).cancelled_by \in Staff
    /\ \A status_type \in ChannelTypes : ~InDerived(status_type, 1)

\* C16: the customer's cancel link goes through for every stored reservation
\* that is not cancelled; nothing else is asked of the reservation
C16_CancelAnyActive ==
    [][\A token \in Tokens :
          /\ cancel_reservation_select("w1", token)
          /\ \E r \in reservations : r.confirmation_token = token /\ r.cancelled = 0
          => At("w1", "cancel", "update")']_vars

\* the run of p has found its channel out of step and has not finished rebuilding it
Rebuilding(p, ch) ==
    req[p].op = "sync" /\ req[p].ch = ch /\ req[p].pc \in {"purge", "post"}

\* C17: two reconciliation runs never rebuild the same channel at the same time
C17_RunsNeverOverlap ==
    \A ch \in ChannelTypes : \A p, q \in Workers :
        Rebuilding(p, ch) /\ Rebuilding(q, ch) => p = q

\* an approval is asked again for a reservation the restaurant has confirmed
Reapprove(rid) ==
    /\ Exists(rid)
    /\ RowOf(rid).restaurant_confirmed = 1
    /\ \/ admin_approve_reservation_select("w1", rid)
       \/ \E user \in Staff : ConfirmButton_callback_select("w1", rid, user)

\* the handler ended at once and left the rows, the audit log and the SMS as they were
NoOpRejection ==
    /\ UNCHANGED <<reservations, action_log, sms_outbox>>
    /\ IsFree("w1")'
    /\ response'.status = "rejected"

\* C18 as stated: approving again changes nothing, logs nothing, notifies
\* nobody and reports that the reservation is already approved
C18_ReapproveReportsAlreadyApproved ==
    [][\A rid \in 1..MaxSeq :
          Reapprove(rid)
          => NoOpRejection /\ response'.message \in {"reserva_ya_aprobada", "ya_confirmada"}]_vars

\* C18: approving again changes nothing, logs nothing and notifies nobody; the
\* dashboard button reports already confirmed, the admin endpoint already
\* approved, or cancelled when the reservation is cancelled too
C18_ReapproveIsNoOp ==
    [][\A rid \in 1..MaxSeq :
          Reapprove(rid)
          => /\ NoOpRejection
             /\ response'.message =
                    IF response'.op = "bot_approve" THEN "ya_confirmada"
                    ELSE IF RowOf(rid).cancelled = 1 THEN "reserva_cancelada"
                    ELSE "reserva_ya_aprobada"]_vars

\* the admin approved a large party and the button of its stale pending card is
\* pressed afterwards: still one audit row and one SMS of the approval
C18_Witness ==
    /\ Exists(1)
    /\ is_large_group(RowOf(1).personas)
    /\ RowOf(1).restaurant_confirmed = 1
    /\ response = Resp("bot_approve", "rejected", "ya_confirmada")
    /\ LogCount(action_log, 1, "restaurant_confirmed") = 1
    /\ SmsCount(1, "approved", "customer") = 1

\* why a request about the reservation of a token, or of an id, is turned down
NamedCause(rows) ==
    IF rows = {} THEN "not_found"
    ELSE IF \E r \in rows : r.cancelled = 1 THEN "already_cancelled"
    ELSE IF \E r \in rows : r.user_confirmed = 1 THEN "already_confirmed"
    ELSE "other"

TokenCause(token) == NamedCause({r \in reservations : r.confirmation_token = token})

IdCause(rid) ==
    IF ~Exists(rid) THEN "not_found"
    ELSE IF RowOf(rid).cancelled = 1 THEN "already_cancelled"
    ELSE IF RowOf(rid).restaurant_confirmed = 1 THEN "already_confirmed"
    ELSE "other"

NamedCauses == {"not_found", "already_cancelled", "already_confirmed"}

RejectionAnswers ==
    {Resp(op, status, message) :
        op \in {"confirm", "cancel", "admin_cancel", "admin_approve"},
        status \in {"invalid", "rejected", "not_found"},
        message \in {"enlace_invalido", "reserva_no_encontrada", "reserva_ya_cancelada",
                     "reserva_cancelada", "reserva_ya_aprobada"}}

\* the request would be turned down at once with the answer a
ConfirmRejects(token, a) ==
    ENABLED (confirm_reservation_select("w1", token) /\ IsFree("w1")' /\ response' = a)

CancelRejects(token, a) ==
    ENABLED (cancel_reservation_select("w1", token) /\ IsFree("w1")' /\ response' = a)

AdminCancelRejects(rid, a) ==
    ENABLED (admin_cancel_reservation_select("w1", rid) /\ IsFree("w1")' /\ response' = a)

AdminApproveRejects(rid, a) ==
    ENABLED (admin_approve_reservation_select("w1", rid) /\ IsFree("w1")' /\ response' = a)

DifferentNamedCauses(c1, c2) == c1 \in NamedCauses /\ c2 \in NamedCauses /\ c1 # c2

\* C19: of two requests to the same operation that are turned down for
\* different reasons among not found, already cancelled and already confirmed,
\* each gets an answer of its own
C19_RejectionsDistinguishable ==
    \A a \in RejectionAnswers :
        /\ \A t1, t2 \in Tokens :
              DifferentNamedCauses(TokenCause(t1), TokenCause(t2))
              => /\ ~(ConfirmRejects(t1, a) /\ ConfirmRejects(t2, a))
                 /\ ~(CancelRejects(t1, a) /\ CancelRejects(t2, a))
        /\ \A r1, r2 \in 1..(MaxSeq + 1) :
              DifferentNamedCauses(IdCause(r1), IdCause(r2))
              => /\ ~(AdminCancelRejects(r1, a) /\ AdminCancelRejects(r2, a))
                 /\ ~(AdminApproveRejects(r1, a) /\ AdminApproveRejects(r2, a))

\* the INSERT of the request meets a stored reservation with the token it drew
TokenCollision(token) ==
    /\ create_reservation_insert("w1", token)
    /\ \E r \in reservations : r.confirmation_token = token

\* C20: a create whose token is already stored does not end in a failure: the
\* request goes on to insert with another token; and a create that reports
\* success has stored its reservation
C20_TokenCollisionRetried ==
    [][/\ \A token \in Tokens :
             TokenCollision(token)
             => response'.status # "error" /\ At("w1", "create", "insert")'
       /\ (response' # response /\ response'.op = "create" /\ response'.status = "ok")
             => \E r \in reservations' : r.id = response'.id]_vars

\* the handlers that committed before p did and have not written their audit row
AheadOf(p) ==
    {unlogged[i] : i \in {k \in 1..Len(unlogged) : \A j \in 1..k : unlogged[j] # p}}

\* log_action of handler p inserts its row
WritesAuditRow(p) ==
    /\ req[p].pc = "log"
    /\ Len(action_log') = Len(action_log) + 1
    /\ req'[p].pc # "log"

\* C21: the audit rows of a reservation are written in the order in which its
\* state changes were committed: when a handler writes its row, no change of the
\* same reservation that was committed earlier is still without its row
C21_AuditInCommitOrder ==
    [][\A p \in Workers :
          WritesAuditRow(p) => \A q \in AheadOf(p) : req[q].rid # req[p].rid]_vars

\* a dashboard handler that changed the reservation returns
BotHandlerCompletes(p) ==
    /\ req[p].op \in BotOps
    /\ req[p].pc = "sms"
    /\ IsFree(p)'

\* C22: when a dashboard handler that made a transition completes, it has
\* reconciled all channels: they are as a run of sync_all_channels leaves them
C22_HandlerReconciles ==
    [][\A p \in Workers :
          BotHandlerCompletes(p) => channels' = sync_all_channels(channels')]_vars

\* C23: the sync command rebuilds every channel from storage, in step or not:
\* each channel is purged and the desired state is posted
C23_SyncCommandForcesRebuild ==
    [][sync_command =>
          \A ch \in ChannelTypes : channels'[ch] = Purge(channels[ch]) \o Rebuild(ch)]_vars

\* C24: every stored reservation has a party size of at least 1
C24_PartySizePositive == \A r \in reservations : r.personas >= 1

InStep(ch) == states_match(get_channel_state(channels[ch]), get_database_state(ch))

\* C30: a tick of the real-time task that finds no audit row newer than
\* last_checked_action_id writes to no channel and keeps last_checked_action_id
C30_IdleTickChangesNothing ==
    [][realtime_sync_task /\ Len(action_log) <= last_checked_action_id
          => UNCHANGED <<channels, last_checked_action_id>>]_vars

\* the task has seen every audit row while a channel is out of step: the tick
\* that comes now leaves the channel as it is
C30_Witness ==
    /\ Len(action_log) > 0
    /\ last_checked_action_id = Len(action_log)
    /\ \E ch \in ChannelTypes : ~InStep(ch)

NoRunInProgress == \A p \in Workers : req[p].op # "sync"

\* the channel holds the first messages of a rebuild of the present desired state
InterruptedRebuild(ch) ==
    \E n \in 0..(Len(Rebuild(ch)) - 1) : channels[ch] = SubSeq(Rebuild(ch), 1, n)

\* C26: a channel left by a rebuild that was interrupted behind its purge is in
\* step after the next run that is not interrupted; if the run found it out of
\* step, the channel then holds the full rebuild
C26_RecoversFromInterruption ==
    [][refresh_task /\ NoRunInProgress
          => \A ch \in ChannelTypes :
                 InterruptedRebuild(ch)
                 => /\ InStep(ch)'
                    /\ ~InStep(ch) => channels'[ch] = Rebuild(ch)]_vars


\* C27: once the cleanup has deleted reservations, every audit row refers to
\* a reservation that is still stored
Swept == cleanup_old_reservations /\ reservations' # reservations

C27_NoDanglingAuditRows ==
    [][Swept => \A i \in 1..Len(action_log') :
                    \E r \in reservations' : r.id = action_log'[i].reservation_id]_vars


\* C28 (as stated): a query for the date of the query answered last, with the
\* template and the blocked hours as they were then, answers the same list.
\* Every request that writes the template or a blocked hour answers, so while
\* response is the answer of a query neither has been written since.
Repeats(fecha) ==
    /\ response.op = "available_hours"
    /\ response.id = fecha
    /\ api_available_hours_get(fecha)

IsHeaderAt(msgs, i) == msgs[i].kind = "embed" /\ msgs[i].footer = NULL

IsCardAt(msgs, i) == msgs[i].kind = "embed" /\ msgs[i].footer # NULL

\* the header a card stands under: the last one before it (0: none)
HeaderOf(msgs, j) ==
    IF \E i \in 1..(j - 1) : IsHeaderAt(msgs, i)
    THEN CHOOSE i \in 1..(j - 1) :
             IsHeaderAt(msgs, i) /\ \A k \in (i + 1)..(j - 1) : ~IsHeaderAt(msgs, k)
    ELSE 0

MinuteOfDay(hora) == strptime_HM(hora).hour * 60 + strptime_HM(hora).minute

InPostingOrder(msgs) ==
    /\ \A i, j \in 1..Len(msgs) :
           i < j /\ IsHeaderAt(msgs, i) /\ IsHeaderAt(msgs, j)
           => msgs[i].title.date < msgs[j].title.date
    /\ \A j \in 1..Len(msgs) :
           IsCardAt(msgs, j)
           => /\ HeaderOf(msgs, j) # 0
              /\ msgs[HeaderOf(msgs, j)].title.date = RowOf(msgs[j].footer).fecha
    /\ \A i, j \in 1..Len(msgs) :
           i < j /\ IsCardAt(msgs, i) /\ IsCardAt(msgs, j)
                 /\ HeaderOf(msgs, i) = HeaderOf(msgs, j)
           => MinuteOfDay(msgs[i].title.hora) <= MinuteOfDay(msgs[j].title.hora)

BecomesUserConfirmed ==
    \E r \in reservations :
        /\ r.user_confirmed = 0
        /\ \E n \in reservations' : n.id = r.id /\ n.user_confirmed = 1

C31_GetChangesNothing ==
    [][/\ (\E token \in Tokens : confirm_reservation_get(token))
              => UNCHANGED <<reservations, action_log, sms_outbox>>
       /\ BecomesUserConfirmed => \E p \in Workers : confirm_reservation_update(p)]_vars

\* the page with the confirmation button was served for a stored, unconfirmed reservation
C31_Witness ==
    /\ response.op = "confirm_get"
    /\ response.status = "prompt"
    /\ \E r \in reservations : r.user_confirmed = 0 /\ r.cancelled = 0


\* C32: the slots the availability query returns are in ascending order of
\* their time of day
AscendingTimes(hours) ==
    \A i, j \in 1..Len(hours) : i < j => MinuteOfDay(hours[i]) < MinuteOfDay(hours[j])

C32_SlotsAscending ==
    [][\A fecha \in QueryDates :
           api_available_hours_get(fecha) => AscendingTimes(response'.hours)]_vars


\* C33: the UPDATE of a customer's confirmation sets user_confirmed of the
\* addressed reservation and changes no other field of it and no other
\* reservation
C33_ConfirmFrame ==
    [][\A p \in Workers :
           confirm_reservation_update(p)
           => reservations' =
                  {IF r.id = req[p].rid THEN [r EXCEPT !.user_confirmed = 1] ELSE r :
                       r \in reservations}]_vars

\* a large party's confirmation is committed while a second reservation is stored
C33_Witness ==
    /\ Cardinality(reservations) = 2
    /\ \E p \in Workers :
           /\ At(p, "confirm", "log")
           /\ RowOf(req[p].rid).user_confirmed = 1
           /\ RowOf(req[p].rid).restaurant_confirmed = 0


\* C34: no two reservations of one canonical phone are both confirmed by the
\* customer, not cancelled and dated today or later
ActiveConfirmed(r) == r.user_confirmed = 1 /\ r.cancelled = 0 /\ r.fecha >= clock.day

C34_OneActivePerPhone ==
    \A a, b \in reservations :
        ActiveConfirmed(a) /\ ActiveConfirmed(b) /\ a.telefono = b.telefono => a.id = b.id


\* C35: at the moment of an availability query, every slot it returned for
\* its date is one that is_booking_allowed accepts for that date.  (While
\* response is the answer of a query, no template or blocked hour has been
\* written since: every request that writes one answers.)
C35_OfferedSlotsBookable ==
    response.op = "available_hours" /\ asked_at = clock
    => \A i \in 1..Len(response.hours) :
           is_booking_allowed(response.id, response.hours[i])[1]

\* the query answered with slots for today, in the afternoon, while an hour of
\* today is blocked
C35_Witness ==
    /\ response.op = "available_hours"
    /\ asked_at = clock
    /\ response.id = clock.day
    /\ clock.hour >= 12
    /\ response.hours # <<>>
    /\ \E b \in blocked_hours : b[1] = clock.day


\* C36: a reservation has cancelled_by and cancelled_at set exactly when it is
\* cancelled, and the audit log holds at most one row 'cancelled' for it by
\* the actor named in cancelled_by
CancelRowsBy(r) ==
    {i \in 1..Len(action_log) :
        /\ action_log[i].reservation_id = r.id
        /\ action_log[i].action_type = "cancelled"
        /\ action_log[i].performed_by = r.cancelled_by}

C36_OneCancellation ==
    \A r \in reservations :
        /\ (r.cancelled = 1) <=> (r.cancelled_by # NULL_TEXT /\ r.cancelled_at # NULL)
        /\ Cardinality(CancelRowsBy(r)) <= 1


\* C37: a reservation of a large party is stored unconfirmed and unapproved;
\* its restaurant_confirmed becomes 1 only in the UPDATE of an approval (admin
\* endpoint or dashboard button) on it, its user_confirmed only in the UPDATE
\* of the customer's confirmation on it; and it is listed in 'confirmed' or
\* 'today' only with both set
WasStored(n) == \E r \in reservations : r.id = n.id

ApproveCommits(rid) ==
    \E p \in Workers :
        /\ req[p].rid = rid
        /\ admin_approve_reservation_update(p) \/ ConfirmButton_callback_update(p)

ConfirmCommits(rid) ==
    \E p \in Workers : req[p].rid = rid /\ confirm_reservation_update(p)

C37_LargePartyNeedsBoth ==
    [][\A n \in reservations' :
           is_large_group(n.personas)
           => /\ n.restaurant_confirmed = 1
                     => \/ WasStored(n) /\ RowOf(n.id).restaurant_confirmed = 1
                        \/ ApproveCommits(n.id)
              /\ n.user_confirmed = 1
                     => \/ WasStored(n) /\ RowOf(n.id).user_confirmed = 1
                        \/ ConfirmCommits(n.id)
              /\ n \in (SelectRows("confirmed") \cup SelectRows("today"))'
                     => FullyConfirmed(n)]_vars

\* a large party confirmed by the customer and approved by the restaurant
C37_Witness ==
    \E r \in reservations : is_large_group(r.personas) /\ FullyConfirmed(r)


\* C38: a channel that the comparison finds in step holds exactly one card for
\* every reservation of the derived state and no card for any other
CardsOf(ch, rid) == {i \in 1..Len(channels[ch]) : IsCardOf(channels[ch][i], rid)}

Desired(ch, rid) == \E r \in SelectRows(ch) : r.id = rid

C38_InStepMeansOneCardEach ==
    \A ch \in ChannelTypes :
        InStep(ch)
        => \A rid \in 1..last_id :
               Cardinality(CardsOf(ch, rid)) = (IF Desired(ch, rid) THEN 1 ELSE 0)


\* C39: once a run has ended, every channel it has rebuilt holds exactly the
\* messages of the derived state and is found in step by the next comparison
C39_RebuiltChannelInStep ==
    NoRunInProgress
    => \A ch \in ChannelTypes :
           channels[ch] # <<>> => channels[ch] = Rebuild(ch) /\ InStep(ch)

\* C40: last_checked_action_id never decreases, and while no request is under
\* way it never stands at the last audit row with a channel out of step: a
\* change whose reconciliation failed is still ahead of it for the next tick
C40_CursorNotPastUnreconciled ==
    /\ [][last_checked_action_id' >= last_checked_action_id]_vars
    /\ [](Quiescent /\ unlogged = <<>> /\ last_checked_action_id = Len(action_log)
             => \A ch \in ChannelTypes : InStep(ch))

====
